---- MODULE Spec2Model ----
(***************************************************************************)
(* Job orchestration and progress streaming of the repo2GPT API server     *)
(* (src/api/server.py): JobStore, EventBroker, emit_event, _run_job,       *)
(* submit_job and stream_job_events.                                       *)
(*                                                                         *)
(* Scheduling.  All store and broker code runs on one asyncio event loop.  *)
(* A coroutine gives up the loop only where an await really suspends.      *)
(* The bodies of JobStore's and EventBroker's "async with self._lock"      *)
(* blocks hold no await, so the locks are never contended and acquire()    *)
(* returns at once; Queue.put on an unbounded queue never waits.  An       *)
(* emit_event call, and every stretch of a handler between two real        *)
(* suspension points, is therefore one atomic step here.  The real         *)
(* suspension points are: asyncio.to_thread in _run_job, every yield of    *)
(* event_generator, request.is_disconnected() and the wait on queue.get(). *)
(* The collaborator runs in a worker thread and reaches the loop only      *)
(* through run_coroutine_threadsafe, i.e. the loop's FIFO callback queue.  *)
(***************************************************************************)
EXTENDS Integers, Sequences, FiniteSets, TLC

\* ---------------------------------------------------------------- bounds
MaxJobs == 2
MaxObservers == 2
MaxProgress == 1
MaxKeepAlive == 1
MaxRestarts == 1
MaxActiveRuns == 1
MaxApiProgress == 3
MaxStreamEvents == 2
MaxChunks == 1
MaxMcpJobs == 2
MaxFiles == 3
MaxTasks == 3

JobIds == 1..MaxJobs
Observers == 1..MaxObservers

\* ------------------------------------------------------------ data model
\* Optional[...] = None
Null == "null"

\* class JobStatus(str, Enum): the members, and their .value strings.
PENDING == "PENDING"
RUNNING == "RUNNING"
COMPLETED == "COMPLETED"
FAILED == "FAILED"

JobStatusMembers == {PENDING, RUNNING, COMPLETED, FAILED}

\* JobStatus.<member>.value
StatusValue(s) ==
    CASE s = PENDING -> "pending"
      [] s = RUNNING -> "running"
      [] s = COMPLETED -> "completed"
      [] s = FAILED -> "failed"

\* JobStatus(value): the member with that value; "ValueError" when none has.
JobStatus(v) ==
    CASE v = "pending" -> PENDING
      [] v = "running" -> RUNNING
      [] v = "completed" -> COMPLETED
      [] v = "failed" -> FAILED
      [] OTHER -> "ValueError"

\* The exceptions the collaborator call is seen to raise (_process_job_sync and
\* what it calls raise ValueError for every failure they classify).
ExcKinds == {"ValueError"}

\* With the exceptions it does not classify (a failed file write of
\* _snapshot_repository is an OSError).
AllExcKinds == ExcKinds \cup {"OSError"}

\* error_text = f"{exc.__class__.__name__}: {exc}"
ErrorText(exc) ==
    CASE exc = "ValueError" -> "ValueError: description"
      [] exc = "OSError" -> "OSError: description"
      [] OTHER -> "Exception: description"

\* The dictionary _snapshot_repository returns (opaque here).
SnapshotResult == "snapshot-result"

\* The files that dictionary refers to: 0 is "repomap_path", i >= 1 is the
\* "path" of the i-th entry of "chunks".
ResultChunks == 1..MaxChunks

ResultFiles == {0} \cup ResultChunks

\* JobEvent(id, timestamp, event, message, data); data carries the status of
\* a status event ("none" when the event has no status field) and the error
\* text of a failed one (Null when the event has no error field).
JobEvent(id, event, status, error) == [id |-> id, event |-> event, status |-> status, error |-> error]

\* JobEvent.to_dict: the payload that is persisted, published and framed.
EventToDict(e) == [id |-> e.id, event |-> e.event, data |-> [status |-> e.status, error |-> e.error]]

\* datetime.isoformat() and datetime.fromisoformat(): the text of a clock
\* reading, and the reading of such a text.
isoformat(t) == <<"iso", t>>
fromisoformat(text) == text[2]

\* The creation payload of a job (JobCreateRequest.model_dump()).
Payload == [source |-> "git"]

\* JobRecord.to_dict: the status document.
RecordToDict(r) ==
    [id |-> r.id,
     status |-> StatusValue(r.status),
     created_at |-> isoformat(r.created_at),
     request |-> r.request,
     events |-> [i \in 1..Len(r.events) |-> EventToDict(r.events[i])],
     result |-> r.result,
     error |-> r.error]

\* JobRecord.from_dict
RecordFromDict(d) ==
    [id |-> d.id,
     status |-> JobStatus(d.status),
     created_at |-> fromisoformat(d.created_at),
     request |-> d.request,
     events |-> [i \in 1..Len(d.events) |->
                    JobEvent(d.events[i].id, d.events[i].event,
                             d.events[i].data.status, d.events[i].data.error)],
     result |-> d.result,
     error |-> d.error]

VARIABLES
    jobs,         \* JobStore._jobs: job id -> JobRecord
    disk,         \* <storage root>/<job id>/status.json: job id -> document
    subscribers,  \* EventBroker._subscribers: job id -> list of queues
    queues,       \* the asyncio.Queue of each observer's stream
    published,    \* per job, the ids handed to EventBroker.publish, in call order
    run,          \* per job, where its _run_job task and worker thread stand
    pending,      \* per job, emitter calls queued on the loop, not yet run
    obs,          \* per observer, where its stream_job_events call stands
    frames,       \* per observer, the frames its stream has yielded
    restarts,     \* process restarts so far
    resp,         \* the last response a control-plane request got
    files,        \* per job, the result files under <job dir>/artifacts
    api_key_env,  \* os.getenv("REPO2GPT_API_KEY") of the server process
    request,      \* the last HTTP request: endpoint, job id, X-API-Key header
    mcp,          \* the MCP server: its JobStore, its last request and response
    chunker,      \* a call of the chunk writer: its inputs, locals and chunks so far
    locks,        \* the store lock and the broker lock: holders, and where each task is
    ready         \* the event loop's queue of callbacks that are ready to run

\* The job orchestration and the streams of the API server.
server == <<jobs, disk, subscribers, queues, published, run, pending, obs, frames, restarts, resp, files>>

\* The state of the other programs of the repository.
tools == <<mcp, chunker>>

\* What the job orchestration and the streams never touch.
\* The event loop seen at the grain of its locks and callbacks.
loop == <<locks, ready>>

aux == <<api_key_env, request, tools, loop>>

vars == <<jobs, disk, subscribers, queues, published, run, pending, obs, frames, restarts, resp, files, aux>>


\* ------------------------------------------------------------- JobStore
\* The store is the pair st = [jobs, disk].  Each operation below is the body of
\* one "async with self._lock" block, which holds no await.

EmptyMap == [k \in {} |-> k]

\* JobStore._write_status
write_status(dk, record) == (record.id :> RecordToDict(record)) @@ dk

\* Mutant of create_job: the record is created RUNNING.
create_jobRunning(st, job_id) ==
    LET record == [id |-> job_id, status |-> RUNNING, created_at |-> job_id, request |-> Payload,
                   events |-> <<>>, result |-> Null, error |-> Null]
    IN  [jobs |-> (job_id :> record) @@ st.jobs,
         disk |-> write_status(st.disk, record)]

\* JobStore.create_job (job_id is the fresh os.urandom(12).hex()).  created_at
\* is the clock reading at creation: jobs are created in the order of their
\* ids, and the reading is later for a later job.
create_job(st, job_id) ==
    LET record == [id |-> job_id, status |-> PENDING, created_at |-> job_id, request |-> Payload,
                   events |-> <<>>, result |-> Null, error |-> Null]
    IN  [jobs |-> (job_id :> record) @@ st.jobs,
         disk |-> write_status(st.disk, record)]

\* JobStore.get_job: Optional[JobRecord] as a sequence of length 0 or 1
get_job(js, job_id) == IF job_id \in DOMAIN js THEN <<js[job_id]>> ELSE <<>>

\* JobStore._require: TRUE when it returns the record, FALSE when it raises
\* KeyError(job_id).
require(js, job_id) == job_id \in DOMAIN js

\* An update_status that starts the history afresh.
\* Mutant of update_status: an error or result that is not passed keeps its
\* old value.
update_statusKeepsUnpassed(st, job_id, status, error, result) ==
    IF ~require(st.jobs, job_id)
    THEN [jobs |-> st.jobs, disk |-> st.disk, raised |-> "KeyError"]
    ELSE LET record == [st.jobs[job_id] EXCEPT !.status = status,
                                               !.error = IF error = Null THEN @ ELSE error,
                                               !.result = IF result = Null THEN @ ELSE result]
         IN  [jobs |-> [st.jobs EXCEPT ![job_id] = record],
              disk |-> write_status(st.disk, record),
              raised |-> "none"]

update_statusClearsEvents(st, job_id, status, error, result) ==
    IF ~require(st.jobs, job_id)
    THEN [jobs |-> st.jobs, disk |-> st.disk, raised |-> "KeyError"]
    ELSE LET record == [st.jobs[job_id] EXCEPT !.status = status, !.error = error, !.result = result, !.events = <<>>]
         IN  [jobs |-> [st.jobs EXCEPT ![job_id] = record], disk |-> write_status(st.disk, record), raised |-> "none"]

\* JobStore.update_status; "raised" names the exception the call ends with.
update_status(st, job_id, status, error, result) ==
    IF ~require(st.jobs, job_id)
    THEN [jobs |-> st.jobs, disk |-> st.disk, raised |-> "KeyError"]
    ELSE LET record == [st.jobs[job_id] EXCEPT !.status = status,
                                               !.error = error,
                                               !.result = result]
         IN  [jobs |-> [st.jobs EXCEPT ![job_id] = record],
              disk |-> write_status(st.disk, record),
              raised |-> "none"]

\* Mutant of NextEventId: the id is the current length (off by one).
NextEventIdStale(events) == Len(events)

\* next_id = len(record.events) + 1
NextEventId(events) == Len(events) + 1

\* Mutant of append_event: the status document is written before the append.
append_event_WritesFirst(st, job_id, event, status, error) ==
    LET job_event == JobEvent(NextEventId(st.jobs[job_id].events), event, status, error)
        record == [st.jobs[job_id] EXCEPT !.events = Append(@, job_event)]
    IN  [jobs |-> [st.jobs EXCEPT ![job_id] = record],
         disk |-> write_status(st.disk, st.jobs[job_id]),
         event |-> job_event,
         raised |-> "none"]

\* Mutant of append_event: an unknown id gets a record made for it.
append_eventCreates(st, job_id, event, status, error) ==
    LET known == IF require(st.jobs, job_id) THEN st ELSE create_job(st, job_id)
        job_event == JobEvent(NextEventId(known.jobs[job_id].events), event, status, error)
        record == [known.jobs[job_id] EXCEPT !.events = Append(@, job_event)]
    IN  [jobs |-> [known.jobs EXCEPT ![job_id] = record],
         disk |-> write_status(known.disk, record),
         event |-> job_event,
         raised |-> "none"]

\* JobStore.append_event; "raised" names the exception the call ends with,
\* and there is no event when it raises.
append_event(st, job_id, event, status, error) ==
    IF ~require(st.jobs, job_id)
    THEN [jobs |-> st.jobs, disk |-> st.disk, raised |-> "KeyError"]
    ELSE LET job_event == JobEvent(NextEventId(st.jobs[job_id].events), event, status, error)
             record == [st.jobs[job_id] EXCEPT !.events = Append(@, job_event)]
         IN  [jobs |-> [st.jobs EXCEPT ![job_id] = record],
              disk |-> write_status(st.disk, record),
              event |-> job_event,
              raised |-> "none"]

\* The documents _load_existing_jobs accepts: from_dict does not raise.
Loadable(d) == JobStatus(d.status) \in JobStatusMembers

\* Mutant of load_existing_jobs: a job found unfinished is loaded as FAILED.
load_existing_jobsFailsUnfinished(dk) ==
    LET ok == {k \in DOMAIN dk : Loadable(dk[k])}
        rec(i) == RecordFromDict(dk[CHOOSE k \in ok : dk[k].id = i])
    IN  [i \in {dk[k].id : k \in ok} |->
            IF rec(i).status \in {PENDING, RUNNING} THEN [rec(i) EXCEPT !.status = FAILED] ELSE rec(i)]

\* "self._jobs[record.id] = record" comes after the try block: from_dict
\* takes any JSON value as the id, and a dict cannot be keyed by a JSON array
\* or object (TypeError: unhashable type).  Such an id is written 0 here.
load_raises(dk) == \E k \in DOMAIN dk : Loadable(dk[k]) /\ dk[k].id = 0

\* JobStore._load_existing_jobs: self._jobs[record.id] = record for every
\* directory whose status.json parses.
load_existing_jobs(dk) ==
    LET ok == {k \in DOMAIN dk : Loadable(dk[k])}
    IN  [i \in {dk[k].id : k \in ok} |->
            RecordFromDict(dk[CHOOSE k \in ok : dk[k].id = i])]

\* ----------------------------------------------------------- EventBroker
\* A queue is named by the observer whose stream created it.

\* list.remove(x): drops the first occurrence
RECURSIVE ListRemove(_, _)
ListRemove(list, x) ==
    IF list = <<>> THEN <<>>
    ELSE IF Head(list) = x THEN Tail(list)
    ELSE <<Head(list)>> \o ListRemove(Tail(list), x)

ListHas(list, x) == \E i \in 1..Len(list) : list[i] = x

\* EventBroker.subscribe: self._subscribers.setdefault(job_id, []).append(queue)
subscribe(subs, job_id, queue) ==
    IF job_id \in DOMAIN subs
    THEN [subs EXCEPT ![job_id] = Append(@, queue)]
    ELSE (job_id :> <<queue>>) @@ subs

\* Mutant of unsubscribe: the queue is removed but an emptied list is kept.
unsubscribeKeepsEntry(subs, job_id, queue) ==
    IF job_id \notin DOMAIN subs \/ subs[job_id] = <<>>
    THEN subs
    ELSE [subs EXCEPT ![job_id] = IF ListHas(@, queue) THEN ListRemove(@, queue) ELSE @]

\* Mutant of unsubscribe: the job's whole entry is deleted.
unsubscribeDropsAll(subs, job_id, queue) ==
    [k \in DOMAIN subs \ {job_id} |-> subs[k]]

\* An unsubscribe that takes the oldest queue of the job off the list when
\* the given one is not on it.
unsubscribeTakesOldest(subs, job_id, queue) ==
    IF job_id \notin DOMAIN subs \/ subs[job_id] = <<>>
    THEN subs
    ELSE LET qs == IF ListHas(subs[job_id], queue)
                   THEN ListRemove(subs[job_id], queue)
                   ELSE Tail(subs[job_id])
         IN  IF qs = <<>>
             THEN [k \in DOMAIN subs \ {job_id} |-> subs[k]]
             ELSE [subs EXCEPT ![job_id] = qs]

\* EventBroker.unsubscribe
unsubscribe(subs, job_id, queue) ==
    IF job_id \notin DOMAIN subs \/ subs[job_id] = <<>>
    THEN subs
    ELSE LET qs == IF ListHas(subs[job_id], queue)
                   THEN ListRemove(subs[job_id], queue)
                   ELSE subs[job_id]
         IN  IF qs = <<>>
             THEN [k \in DOMAIN subs \ {job_id} |-> subs[k]]
             ELSE [subs EXCEPT ![job_id] = qs]

\* Mutant of PutAll: the event is put at the front of each queue.
RECURSIVE PutAllFront(_, _, _)
PutAllFront(qs, list, payload) ==
    IF list = <<>> THEN qs
    ELSE PutAllFront([qs EXCEPT ![Head(list)] = <<payload>> \o @], Tail(list), payload)

\* for queue in queues: await queue.put(event)
RECURSIVE PutAll(_, _, _)
PutAll(qs, list, payload) ==
    IF list = <<>> THEN qs
    ELSE PutAll([qs EXCEPT ![Head(list)] = Append(@, payload)], Tail(list), payload)

\* Mutant of publish: only the first registered queue gets the event.
publishFirstOnly(subs, qs, job_id, payload) ==
    PutAll(qs, IF job_id \in DOMAIN subs /\ subs[job_id] # <<>>
               THEN <<Head(subs[job_id])>> ELSE <<>>, payload)

\* Mutant of publish: the event goes to the queues registered for any job.
publishBroadcast(subs, qs, job_id, payload) ==
    [o \in DOMAIN qs |->
        IF \E k \in DOMAIN subs : ListHas(subs[k], o) THEN Append(qs[o], payload) ELSE qs[o]]

\* EventBroker.publish
publish(subs, qs, job_id, payload) ==
    PutAll(qs, IF job_id \in DOMAIN subs THEN subs[job_id] ELSE <<>>, payload)

\* -------------------------------------------------------------- emit_event
\* w = [jobs, disk, queues, published]; the subscriber map is only read.
\* An exception of append_event ends the call before publish.
emit_event(w, subs, job_id, event, status, error) ==
    LET a == append_event([jobs |-> w.jobs, disk |-> w.disk], job_id, event, status, error)
        payload == EventToDict(a.event)
    IN  IF a.raised # "none"
        THEN [jobs |-> a.jobs, disk |-> a.disk, queues |-> w.queues,
              published |-> w.published, raised |-> a.raised]
        ELSE [jobs |-> a.jobs,
              disk |-> a.disk,
              queues |-> publish(subs, w.queues, job_id, payload),
              published |-> [w.published EXCEPT ![job_id] = Append(@, payload.id)],
              raised |-> "none"]

World == [jobs |-> jobs, disk |-> disk, queues |-> queues, published |-> published]

SetWorld(w) ==
    /\ jobs' = w.jobs
    /\ disk' = w.disk
    /\ queues' = w.queues
    /\ published' = w.published


\* ------------------------------------------------------------------ Init
\* The state after "job_store = JobStore(...)" on an empty storage root and
\* "event_broker = EventBroker()".
NoRun == [pc |-> "none", emitted |-> 0, exc |-> "none"]

\* No request has been answered yet.
NoResponse == [op |-> "none", job |-> 0, code |-> 0, status |-> "none", first |-> FALSE]

\* A response: the handler, the job id asked for, the HTTP status code, the
\* "status" field of the body ("none" when the body has none), and whether a
\* get is the first request after the create response of that job.  For a
\* direct call of the store or of emit_event the code is 0 and "status" names
\* the exception the call raised ("none" when it returned).
Response(op, job, code, status, first) == [op |-> op, job |-> job, code |-> code, status |-> status, first |-> first]

NoStream == [pc |-> "idle", job |-> 0, idx |-> 0, last_event_id |-> 0, exit |-> "none"]

InitServer ==
    /\ jobs = EmptyMap
    /\ disk = EmptyMap
    /\ subscribers = EmptyMap
    /\ queues = [o \in Observers |-> <<>>]
    /\ published = [j \in JobIds |-> <<>>]
    /\ run = [j \in JobIds |-> NoRun]
    /\ pending = [j \in JobIds |-> 0]
    /\ obs = [o \in Observers |-> NoStream]
    /\ frames = [o \in Observers |-> <<>>]
    /\ restarts = 0
    /\ resp = NoResponse
    /\ files = [j \in JobIds |-> {}]

\* No request has been made yet; seq tells one request from the next.
NoRequest == [op |-> "none", job |-> 0, key |-> Null, seq |-> 0]

\* REPO2GPT_API_KEY is not set.
\* An optional dict entry or keyword argument: <<>> when absent (None, or a
\* key the dict does not have), <<v>> when present with value v.
Absent == <<>>
Present(v) == <<v>>

\* ------- main.py generate_consolidated_file, service.py _generate_consolidated_chunks
\* The files os.walk yields, in walk order: whether the file passes the
\* filters (skip_relatives, should_include_file, max_file_bytes,
\* is_binary_file), and len(file_block) of its header and body.  A header is
\* never empty, so an included file's block has a positive length.
FileKinds == {[included |-> FALSE, length |-> 0], [included |-> TRUE, length |-> 13], [included |-> TRUE, length |-> 29]}
WalkedFiles == UNION {[1..n -> FileKinds] : n \in 0..MaxFiles}

\* chunk_token_limit arguments: None, or an integer.
ChunkLimitArgs == {Absent, Present(-1), Present(0), Present(7), Present(8), Present(12)}

\* TokenEstimator.count with the approximate strategy: 0 when the estimator
\* is disabled or the text is empty, else (length + 3) // 4.
estimator_count(enabled, length) ==
    IF ~enabled \/ length = 0 THEN 0 ELSE (length + 3) \div 4

\* chunk_token_limit if chunk_token_limit and chunk_token_limit > 0 else None
token_limit(chunk_token_limit) ==
    IF chunk_token_limit /= Absent /\ chunk_token_limit[1] /= 0 /\ chunk_token_limit[1] > 0 THEN chunk_token_limit ELSE Absent

\* A split test that does not ask whether the current chunk has tokens.
must_splitAlsoWhenEmpty(limit, chunk_tokens, block_tokens) ==
    limit /= Absent /\ chunk_tokens + block_tokens > limit[1]

\* token_limit and chunk_tokens > 0 and chunk_tokens + block_tokens > token_limit
must_split(limit, chunk_tokens, block_tokens) ==
    limit /= Absent /\ limit[1] /= 0 /\ chunk_tokens > 0 /\ chunk_tokens + block_tokens > limit[1]

\* finalize_chunk, and the reset of the running counts that follows it: the
\* chunk gets the next index (main.py: the path of chunk_index), the counts
\* and what was written to it.
finalize_chunk(c) ==
    [c EXCEPT !.chunks = Append(@, [index |-> Len(@) + 1, token_count |-> c.chunk_tokens, file_count |-> c.chunk_file_count, content |-> c.buffer]), !.buffer = <<>>, !.chunk_tokens = 0, !.chunk_file_count = 0]

\* The state of a call before the walk, and of no call at all.
StartChunker(variant, walked, enabled, chunk_token_limit) ==
    [variant |-> variant, files |-> walked, enabled |-> enabled, chunk_token_limit |-> chunk_token_limit, limit |-> token_limit(chunk_token_limit), pos |-> 0, chunks |-> <<>>, buffer |-> <<>>, chunk_tokens |-> 0, chunk_file_count |-> 0, done |-> FALSE]
IdleChunker == [StartChunker("main", <<>>, FALSE, Absent) EXCEPT !.done = TRUE]

\* The MCP server after construction: an empty JobStore, no request yet.
EmptyMcpStore == [jobs |-> <<>>, artifacts |-> <<>>]

NoMcpRequest == [id |-> Null, tool |-> "none", outcome |-> "none", arg |-> 0]
NoMcpResponse == [jsonrpc |-> "2.0", id |-> Null, result |-> Absent, error |-> Absent]
InitMcp == [store |-> EmptyMcpStore, request |-> NoMcpRequest, response |-> NoMcpResponse]

InitTools ==
    /\ mcp = InitMcp
    /\ chunker = IdleChunker

\* ---------------------------------------- the store lock and the broker lock
\* JobStore._lock and EventBroker._lock, and the tasks of the event loop that
\* take them.  A lock's holder is a task, or 0 when the lock is free.
LockNames == {"store", "broker"}
TaskIds == 1..MaxTasks
IdleTask == [op |-> "none", at |-> 0]
InitLocks == [holder |-> [l \in LockNames |-> 0], task |-> [t \in TaskIds |-> IdleTask]]

InitLoop ==
    /\ locks = InitLocks
    /\ ready = <<>>

InitAux ==
    /\ api_key_env = Null
    /\ request = NoRequest
    /\ InitTools
    /\ InitLoop

Init == InitServer /\ InitAux

\* ------------------------------------------------- submit_job and _run_job
\* Mutant of SubmitJob: no "Job created" event is emitted.
SubmitJobSilent(j) ==
    /\ j \notin DOMAIN jobs
    /\ j \notin DOMAIN disk
    /\ \A k \in JobIds : k < j => k \in DOMAIN disk
    /\ Cardinality({k \in JobIds : run[k].pc \notin {"none", "done", "crashed"}}) < MaxActiveRuns
    /\ LET st == create_job([jobs |-> jobs, disk |-> disk], j)
       IN  /\ jobs' = st.jobs
           /\ disk' = st.disk
           /\ resp' = Response("submit", j, 202, StatusValue(st.jobs[j].status), FALSE)
    /\ run' = [run EXCEPT ![j] = [NoRun EXCEPT !.pc = "scheduled"]]
    /\ UNCHANGED <<aux, files, queues, published, subscribers, pending, obs, frames, restarts>>

\* submit_job: create_job, emit_event("status", status=pending), then the
\* background task that creates the _run_job task.
\* Job ids are opaque random strings: the ids are taken in order, and at most
\* MaxActiveRuns accepted jobs are unfinished at a time.
SubmitJob(j) ==
    /\ j \notin DOMAIN jobs
    /\ j \notin DOMAIN disk
    /\ \A k \in JobIds : k < j => k \in DOMAIN disk
    /\ Cardinality({k \in JobIds : run[k].pc \notin {"none", "done", "crashed"}}) < MaxActiveRuns
    /\ LET st == create_job([jobs |-> jobs, disk |-> disk], j)
           w0 == [World EXCEPT !.jobs = st.jobs, !.disk = st.disk]
           w1 == emit_event(w0, subscribers, j, "status", StatusValue(st.jobs[j].status), Null)
       IN  /\ SetWorld(w1)
           /\ resp' = Response("submit", j, 202, StatusValue(w1.jobs[j].status), FALSE)
    /\ run' = [run EXCEPT ![j] = [NoRun EXCEPT !.pc = "scheduled"]]
    /\ UNCHANGED <<aux, files, subscribers, pending, obs, frames, restarts>>

\* Mutant of RunStart: the transition to RUNNING is left out.
\* _schedule_job(job_id): a task running _run_job(job_id) is created for
\* whatever id it is given, in the store or not.
ScheduleJob(j) ==
    /\ run[j].pc = "none"
    /\ Cardinality({k \in JobIds : run[k].pc \notin {"none", "done", "crashed"}}) < MaxActiveRuns
    /\ run' = [run EXCEPT ![j] = [NoRun EXCEPT !.pc = "scheduled"]]
    /\ UNCHANGED <<aux, files, jobs, disk, subscribers, queues, published, pending, obs, frames, restarts, resp>>

\* Mutant of RunStart: the "if record is None: return" is missing and the
\* worker thread is started for an id the store does not hold.
RunStartWithoutRecord(j) ==
    /\ run[j].pc = "scheduled"
    /\ IF get_job(jobs, j) = <<>>
       THEN /\ run' = [run EXCEPT ![j].pc = "thread"]
            /\ UNCHANGED <<jobs, disk, queues, published>>
       ELSE /\ LET st == update_status([jobs |-> jobs, disk |-> disk], j, RUNNING, Null, Null)
                   w0 == [World EXCEPT !.jobs = st.jobs, !.disk = st.disk]
                   w1 == emit_event(w0, subscribers, j, "status", StatusValue(RUNNING), Null)
               IN  SetWorld(w1)
            /\ run' = [run EXCEPT ![j].pc = "thread"]
    /\ UNCHANGED <<aux, files, subscribers, pending, obs, frames, restarts, resp>>

RunStartSkipsRunning(j) ==
    /\ run[j].pc = "scheduled"
    /\ get_job(jobs, j) # <<>>
    /\ SetWorld(emit_event(World, subscribers, j, "status", StatusValue(RUNNING), Null))
    /\ run' = [run EXCEPT ![j].pc = "thread"]
    /\ UNCHANGED <<aux, files, subscribers, pending, obs, frames, restarts, resp>>

\* _run_job up to "await asyncio.to_thread(...)": the lookup, the transition to
\* RUNNING and the "Job started" status event.
RunStart(j) ==
    /\ run[j].pc = "scheduled"
    /\ IF get_job(jobs, j) = <<>>
       THEN /\ run' = [run EXCEPT ![j].pc = "done"]
            /\ UNCHANGED <<jobs, disk, queues, published>>
       ELSE /\ LET st == update_status([jobs |-> jobs, disk |-> disk], j, RUNNING, Null, Null)
                   w0 == [World EXCEPT !.jobs = st.jobs, !.disk = st.disk]
                   w1 == emit_event(w0, subscribers, j, "status", StatusValue(RUNNING), Null)
               IN  SetWorld(w1)
            /\ run' = [run EXCEPT ![j].pc = "thread"]
    /\ UNCHANGED <<aux, files, subscribers, pending, obs, frames, restarts, resp>>

\* The worker thread (_process_job_sync) calls the emitter: the emit_event
\* coroutine is handed to the loop and the thread goes on without waiting.
\* max bounds the emitter calls of one run.
ThreadEmit(j, max) ==
    /\ run[j].pc = "thread"
    /\ run[j].emitted < max
    /\ run' = [run EXCEPT ![j].emitted = @ + 1]
    /\ pending' = [pending EXCEPT ![j] = @ + 1]
    /\ UNCHANGED <<aux, files, jobs, disk, subscribers, queues, published, obs, frames, restarts, resp>>

\* Mutant of LoopEmit: the handed-over emit_event is dropped.
LoopEmitDrops(j) ==
    /\ pending[j] > 0
    /\ j \in DOMAIN jobs
    /\ pending' = [pending EXCEPT ![j] = @ - 1]
    /\ UNCHANGED <<aux, files, jobs, disk, queues, published, subscribers, run, obs, frames, restarts, resp>>

\* The loop runs one emit_event handed over by _threadsafe_emitter.
LoopEmit(j) ==
    /\ pending[j] > 0
    /\ j \in DOMAIN jobs
    /\ SetWorld(emit_event(World, subscribers, j, "progress", "none", Null))
    /\ pending' = [pending EXCEPT ![j] = @ - 1]
    /\ UNCHANGED <<aux, files, subscribers, run, obs, frames, restarts, resp>>

\* _process_job_sync returns the snapshot result; it has called the emitter
\* at least once by then ("Starting job" comes before any work), and
\* _snapshot_repository has written the repo map and every chunk file.
ThreadReturn(j) ==
    /\ run[j].pc = "thread"
    /\ run[j].emitted >= 1
    /\ run' = [run EXCEPT ![j].pc = "returned"]
    /\ files' = [files EXCEPT ![j] = ResultFiles]
    /\ UNCHANGED <<aux, jobs, disk, subscribers, queues, published, pending, obs, frames, restarts, resp>>

\* _process_job_sync raises, before or after it has called the emitter.
ThreadRaise(j, exc) ==
    /\ run[j].pc = "thread"
    /\ run' = [run EXCEPT ![j].pc = "raised", ![j].exc = exc]
    /\ UNCHANGED <<aux, files, jobs, disk, subscribers, queues, published, pending, obs, frames, restarts, resp>>

\* <job dir>/workspace, and a directory without write permission that
\* tar.extractall has unpacked under it with a file inside (extractall keeps
\* the modes of the archive's members).
WorkspaceDir == 0 - 1
ReadOnlyDir == 0 - 2

\* _clean_workspace(path): shutil.rmtree(path, ignore_errors=True) removes
\* what it can and passes over what it cannot; a file in a directory without
\* write permission cannot be unlinked, so that directory and the workspace
\* above it stay.
clean_workspace(fs) == IF ReadOnlyDir \in fs THEN fs ELSE fs \ {WorkspaceDir}

\* _prepare_repository, after "Starting job": the workspace is cleaned and
\* made, the emitter is called, and the source is fetched into the workspace;
\* readonly tells whether the uploaded or downloaded archive holds a
\* directory without write permission.
ThreadPrepare(j, readonly) ==
    /\ run[j].pc = "thread"
    /\ run[j].emitted = 1
    /\ files' = [files EXCEPT ![j] = clean_workspace(@) \cup {WorkspaceDir} \cup (IF readonly THEN {ReadOnlyDir} ELSE {})]
    /\ run' = [run EXCEPT ![j].emitted = @ + 1]
    /\ pending' = [pending EXCEPT ![j] = @ + 1]
    /\ UNCHANGED <<aux, jobs, disk, subscribers, queues, published, obs, frames, restarts, resp>>

\* _process_job_sync returns from its try block: the result files are
\* written and the finally clause cleans the workspace.
ThreadReturnCleans(j) ==
    /\ run[j].pc = "thread"
    /\ WorkspaceDir \in files[j]
    /\ run' = [run EXCEPT ![j].pc = "returned"]
    /\ files' = [files EXCEPT ![j] = clean_workspace(@ \cup ResultFiles)]
    /\ UNCHANGED <<aux, jobs, disk, subscribers, queues, published, pending, obs, frames, restarts, resp>>

\* _process_job_sync raises: before "Starting job" (a request that does not
\* validate) no workspace exists and no finally clause runs; after it the
\* finally clause cleans the workspace.
ThreadRaiseCleans(j, exc) ==
    /\ run[j].pc = "thread"
    /\ run' = [run EXCEPT ![j].pc = "raised", ![j].exc = exc]
    /\ files' = [files EXCEPT ![j] = IF run[j].emitted = 0 THEN @ ELSE clean_workspace(@)]
    /\ UNCHANGED <<aux, jobs, disk, subscribers, queues, published, pending, obs, frames, restarts, resp>>

\* Mutant of Outcome: the failure is recorded without its error text.
OutcomeDropsError(r) ==
    IF r.pc = "raised"
    THEN [status |-> FAILED, error |-> Null, result |-> Null]
    ELSE [status |-> COMPLETED, error |-> Null, result |-> SnapshotResult]

\* The status and the event fields _run_job records for the thread's outcome.
Outcome(r) ==
    IF r.pc = "raised"
    THEN [status |-> FAILED, error |-> ErrorText(r.exc), result |-> Null]
    ELSE [status |-> COMPLETED, error |-> Null, result |-> SnapshotResult]

\* Mutant of RunFinish: the except branch has no "return" and falls through to
\* the completed branch.
RunFinishFallsThrough(j) ==
    /\ run[j].pc \in {"returned", "raised"}
    /\ pending[j] = 0
    /\ LET o == Outcome(run[j])
           st == update_status([jobs |-> jobs, disk |-> disk], j, o.status, o.error, o.result)
           w0 == [World EXCEPT !.jobs = st.jobs, !.disk = st.disk]
           w1 == emit_event(w0, subscribers, j, "status", StatusValue(o.status), o.error)
           st2 == update_status([jobs |-> w1.jobs, disk |-> w1.disk], j, COMPLETED, Null, SnapshotResult)
           w2 == [w1 EXCEPT !.jobs = st2.jobs, !.disk = st2.disk]
           w3 == emit_event(w2, subscribers, j, "status", StatusValue(COMPLETED), Null)
       IN  SetWorld(IF run[j].pc = "raised" THEN w3 ELSE w1)
    /\ run' = [run EXCEPT ![j].pc = "done"]
    /\ UNCHANGED <<aux, files, subscribers, pending, obs, frames, restarts, resp>>

\* Mutant of RunFinish: the terminal status event carries no error text.
RunFinishEventLacksError(j) ==
    /\ run[j].pc \in {"returned", "raised"}
    /\ pending[j] = 0
    /\ LET o == Outcome(run[j])
           st == update_status([jobs |-> jobs, disk |-> disk], j, o.status, o.error, o.result)
           w0 == [World EXCEPT !.jobs = st.jobs, !.disk = st.disk]
           w1 == emit_event(w0, subscribers, j, "status", StatusValue(o.status), Null)
       IN  SetWorld(w1)
    /\ run' = [run EXCEPT ![j].pc = "done"]
    /\ UNCHANGED <<aux, files, subscribers, pending, obs, frames, restarts, resp>>

\* _run_job after the await: the except branch or the completed branch.  The
\* task is woken through the loop's callback queue, behind the emitter calls
\* the thread made before it ended.
RunFinish(j) ==
    /\ run[j].pc \in {"returned", "raised"}
    /\ pending[j] = 0
    /\ LET o == Outcome(run[j])
           st == update_status([jobs |-> jobs, disk |-> disk], j, o.status, o.error, o.result)
           w0 == [World EXCEPT !.jobs = st.jobs, !.disk = st.disk]
           w1 == emit_event(w0, subscribers, j, "status", StatusValue(o.status), o.error)
       IN  SetWorld(w1)
    /\ run' = [run EXCEPT ![j].pc = "done"]
    /\ UNCHANGED <<aux, files, subscribers, pending, obs, frames, restarts, resp>>

\* ------------------------------------------------------ get_job (handler)
\* GET /jobs/{job_id}: 404 for an unknown id, else record.to_dict().
get_job_response(js, job_id, first) ==
    IF get_job(js, job_id) = <<>>
    THEN Response("get", job_id, 404, "none", first)
    ELSE Response("get", job_id, 200, RecordToDict(js[job_id]).status, first)

\* A client's GET /jobs/{job_id}; it is "first" when the last response the
\* client got is the create response of that job.
GetJob(j) ==
    /\ resp' = get_job_response(jobs, j, resp.op = "submit" /\ resp.job = j)
    /\ UNCHANGED <<aux, files, jobs, disk, subscribers, queues, published, run, pending, obs, frames, restarts>>

\* ---------------------------------------------------- get_job_artifacts
\* Mutant of get_job_artifacts: only an unfinished job is answered 409.
get_job_artifactsFailedPasses(js, job_id, present) ==
    IF get_job(js, job_id) = <<>> THEN 404
    ELSE IF js[job_id].status \in {PENDING, RUNNING} THEN 409
    ELSE IF js[job_id].result = Null THEN 500
    ELSE IF 0 \notin present THEN 500
    ELSE 200

\* The status code of GET /jobs/{job_id}/artifacts; present holds the result
\* files for which path.exists() answers True.  A chunk whose file is missing
\* is passed over ("continue"): only the repo map is required.
get_job_artifacts(js, job_id, present) ==
    IF get_job(js, job_id) = <<>> THEN 404
    ELSE IF js[job_id].status # COMPLETED THEN 409
    ELSE IF js[job_id].result = Null THEN 500
    ELSE IF 0 \notin present THEN 500
    ELSE 200

\* A client's GET /jobs/{job_id}/artifacts.
GetArtifacts(j) ==
    /\ resp' = Response("artifacts", j, get_job_artifacts(jobs, j, files[j]), "none", FALSE)
    /\ UNCHANGED <<aux, files, jobs, disk, subscribers, queues, published, run, pending, obs, frames, restarts>>

\* A result file is removed from the storage root behind the server's back
\* (retention, cleanup, an operator).
RemoveFile(j, f) ==
    /\ f \in files[j]
    /\ files' = [files EXCEPT ![j] = @ \ {f}]
    /\ UNCHANGED <<aux, jobs, disk, subscribers, queues, published, run, pending, obs, frames, restarts, resp>>

\* ------------------------------------------------------- require_api_key
\* What os.getenv can return for REPO2GPT_API_KEY, and what
\* request.headers.get("X-API-Key") can (Null: variable unset, header absent).
ApiKeyEnvs == {Null, "", "s3cret"}

ApiKeys == {Null, "wrong", "s3cret"}

\* bool(expected) of an Optional[str]
Truthy(v) == v # Null /\ v # ""

\* Mutant of verify_api_key: a request without the header is admitted.
verify_api_keyAbsentPasses(expected, api_key) ==
    ~(Truthy(expected) /\ api_key # Null /\ api_key # expected)

\* _verify_api_key: TRUE when it returns, FALSE when it raises
\* HTTPException(401).
verify_api_key(expected, api_key) == ~(Truthy(expected) /\ api_key # expected)

\* The request is the next one, with this endpoint, job id and key header.
Requests(op, j, key) ==
    request' = [op |-> op, job |-> j, key |-> key, seq |-> 1 - request.seq]

\* The dependency raised 401: the handler is not called.
Unauthorized(op, j) ==
    /\ resp' = Response(op, j, 401, "none", FALSE)
    /\ UNCHANGED <<jobs, disk, subscribers, queues, published, run, pending, obs, frames, restarts, files>>

\* POST /jobs with dependencies=[Depends(require_api_key)]
SubmitJobRequest(j, key) ==
    /\ Requests("submit", j, key)
    /\ UNCHANGED <<api_key_env, tools, loop>>
    /\ IF verify_api_key(api_key_env, key)
       THEN /\ j \notin DOMAIN jobs
            /\ LET st == create_job([jobs |-> jobs, disk |-> disk], j)
                   w0 == [World EXCEPT !.jobs = st.jobs, !.disk = st.disk]
                   w1 == emit_event(w0, subscribers, j, "status", StatusValue(st.jobs[j].status), Null)
               IN  /\ SetWorld(w1)
                   /\ resp' = Response("submit", j, 202, StatusValue(w1.jobs[j].status), FALSE)
            /\ run' = [run EXCEPT ![j] = [NoRun EXCEPT !.pc = "scheduled"]]
            /\ UNCHANGED <<subscribers, pending, obs, frames, restarts, files>>
       ELSE Unauthorized("submit", j)

\* Mutant of GetJobRequest: the lookup inserts a record for an unknown id
\* (setdefault in place of get).
GetJobRequestInserts(j, key) ==
    /\ Requests("get", j, key)
    /\ UNCHANGED <<api_key_env, tools, loop>>
    /\ IF verify_api_key(api_key_env, key)
       THEN /\ resp' = get_job_response(jobs, j, FALSE)
            /\ jobs' = IF j \in DOMAIN jobs THEN jobs
                       ELSE create_job([jobs |-> jobs, disk |-> disk], j).jobs
            /\ UNCHANGED <<disk, subscribers, queues, published, run, pending, obs, frames, restarts, files>>
       ELSE Unauthorized("get", j)

\* GET /jobs/{job_id} with the dependency
GetJobRequest(j, key) ==
    /\ Requests("get", j, key)
    /\ UNCHANGED <<api_key_env, tools, loop>>
    /\ IF verify_api_key(api_key_env, key)
       THEN /\ resp' = get_job_response(jobs, j, FALSE)
            /\ UNCHANGED <<jobs, disk, subscribers, queues, published, run, pending, obs, frames, restarts, files>>
       ELSE Unauthorized("get", j)

\* GET /jobs/{job_id}/artifacts with the dependency
GetArtifactsRequest(j, key) ==
    /\ Requests("artifacts", j, key)
    /\ UNCHANGED <<api_key_env, tools, loop>>
    /\ IF verify_api_key(api_key_env, key)
       THEN /\ resp' = Response("artifacts", j, get_job_artifacts(jobs, j, files[j]), "none", FALSE)
            /\ UNCHANGED <<jobs, disk, subscribers, queues, published, run, pending, obs, frames, restarts, files>>
       ELSE Unauthorized("artifacts", j)

\* GET /jobs/{job_id}/events with the dependency: 401, 404, or the
\* StreamingResponse of an idle observer's stream.
StreamRequest(o, j, key) ==
    /\ Requests("events", j, key)
    /\ UNCHANGED <<api_key_env, tools, loop>>
    /\ obs[o].pc = "idle"
    /\ \A p \in Observers : p < o => obs[p].pc # "idle"
    /\ IF verify_api_key(api_key_env, key)
       THEN /\ resp' = Response("events", j, IF get_job(jobs, j) = <<>> THEN 404 ELSE 200, "none", FALSE)
            /\ obs' = IF get_job(jobs, j) = <<>> THEN obs
                      ELSE [obs EXCEPT ![o] = [NoStream EXCEPT !.pc = "opened", !.job = j]]
            /\ UNCHANGED <<jobs, disk, subscribers, queues, published, run, pending, frames, restarts, files>>
       ELSE Unauthorized("events", j)

\* GET /healthz: no dependency.
HealthCheck(key) ==
    /\ Requests("healthz", 0, key)
    /\ resp' = Response("healthz", 0, 200, "ok", FALSE)
    /\ UNCHANGED <<api_key_env, tools, loop, jobs, disk, subscribers, queues, published, run, pending, obs, frames, restarts, files>>

\* ------------------------------------------------- storage write failures
\* What status.json holds after write_text has truncated it and then failed:
\* no JSON document (json.loads raises on it).
TornDocument(job_id) == [id |-> job_id, status |-> "", events |-> <<>>, result |-> Null, error |-> Null]

\* JobStore._write_status raises OSError (disk full, directory not writable or
\* removed): the file keeps the old document when it could not be opened, and
\* is torn when it was truncated before the failure.
write_status_raises(dk, record, torn) ==
    IF torn THEN (record.id :> TornDocument(record.id)) @@ dk ELSE dk

\* JobStore.update_status when _write_status raises: the record's fields are
\* assigned before the write.
update_status_raises(st, job_id, status, error, result, torn) ==
    LET record == [st.jobs[job_id] EXCEPT !.status = status,
                                          !.error = error,
                                          !.result = result]
    IN  [jobs |-> [st.jobs EXCEPT ![job_id] = record],
         disk |-> write_status_raises(st.disk, record, torn)]

\* JobStore.append_event when _write_status raises: the event is appended
\* before the write; emit_event does not get to publish.
append_event_raises(st, job_id, event, status, error, torn) ==
    LET job_event == JobEvent(NextEventId(st.jobs[job_id].events), event, status, error)
        record == [st.jobs[job_id] EXCEPT !.events = Append(@, job_event)]
    IN  [jobs |-> [st.jobs EXCEPT ![job_id] = record],
         disk |-> write_status_raises(st.disk, record, torn)]

\* JobStore.create_job when _write_status raises: the record is put in the
\* map before the directory is made and the documents are written.
create_job_raises(st, job_id, torn) ==
    LET record == create_job(st, job_id).jobs[job_id]
    IN  [jobs |-> (job_id :> record) @@ st.jobs,
         disk |-> write_status_raises(st.disk, record, torn)]

\* The two store calls _run_job makes in a row: "at" names the one whose
\* write raises; the first has succeeded when the second one raises.
UpdateThenEmitRaises(j, status, error, result, at, torn) ==
    LET st0 == [jobs |-> jobs, disk |-> disk]
        st1 == update_status(st0, j, status, error, result)
    IN  IF at = "update_status"
        THEN update_status_raises(st0, j, status, error, result, torn)
        ELSE append_event_raises(st1, j, "status", StatusValue(status), error, torn)

\* _run_job up to the await, when update_status(RUNNING) or the "Job started"
\* emit_event raises: both calls stand before the try block, so the exception
\* ends the task.
RunStartRaises(j, at, torn) ==
    /\ run[j].pc = "scheduled"
    /\ get_job(jobs, j) # <<>>
    /\ LET st == UpdateThenEmitRaises(j, RUNNING, Null, Null, at, torn)
       IN  jobs' = st.jobs /\ disk' = st.disk
    /\ run' = [run EXCEPT ![j].pc = "crashed"]
    /\ UNCHANGED <<aux, files, subscribers, queues, published, pending, obs, frames, restarts, resp>>

\* An emit_event handed over by the worker thread raises: the exception stays
\* in the future run_coroutine_threadsafe returned, which nobody reads.
LoopEmitRaises(j, torn) ==
    /\ pending[j] > 0
    /\ j \in DOMAIN jobs
    /\ LET st == append_event_raises([jobs |-> jobs, disk |-> disk], j, "progress", "none", Null, torn)
       IN  jobs' = st.jobs /\ disk' = st.disk
    /\ pending' = [pending EXCEPT ![j] = @ - 1]
    /\ UNCHANGED <<aux, files, subscribers, queues, published, run, obs, frames, restarts, resp>>

\* _run_job after the await, when update_status or emit_event raises inside
\* the except handler or on the completed path: nothing catches it.
RunFinishRaises(j, at, torn) ==
    /\ run[j].pc \in {"returned", "raised"}
    /\ pending[j] = 0
    /\ LET o == Outcome(run[j])
           st == UpdateThenEmitRaises(j, o.status, o.error, o.result, at, torn)
       IN  jobs' = st.jobs /\ disk' = st.disk
    /\ run' = [run EXCEPT ![j].pc = "crashed"]
    /\ UNCHANGED <<aux, files, subscribers, queues, published, pending, obs, frames, restarts, resp>>

\* The store calls of _run_job whose write can raise.
StoreCalls == {"update_status", "emit_event"}

\* ------------------------------------------------------ stream_job_events
Max(a, b) == IF a >= b THEN a ELSE b
Min(a, b) == IF a <= b THEN a ELSE b

\* The frame ": keep-alive\n\n": no id, no event.
KeepAlive == [id |-> 0, event |-> "keep-alive", data |-> [status |-> "none", error |-> Null]]

KeepAlivesSent(o) == Cardinality({i \in 1..Len(frames[o]) : frames[o][i] = KeepAlive})

\* event.get("event") == "status" and data.status in {completed, failed}
IsTerminalEvent(event) ==
    /\ event.event = "status"
    /\ event.data.status \in {StatusValue(COMPLETED), StatusValue(FAILED)}

\* Mutant of Discards: "<" in place of "<=".
DiscardsStrict(event_id, last_event_id) == event_id # 0 /\ event_id < last_event_id

\* if event_id and event_id <= last_event_id: continue
Discards(event_id, last_event_id) == event_id # 0 /\ event_id <= last_event_id

\* The handler up to "return StreamingResponse(...)": the 404 check; record is
\* the store's own JobRecord object, so its events list stays live.
\* Observers are anonymous: they connect in order.
StreamOpen(o, j) ==
    /\ obs[o].pc = "idle"
    /\ \A p \in Observers : p < o => obs[p].pc # "idle"
    /\ get_job(jobs, j) # <<>>
    /\ obs' = [obs EXCEPT ![o] = [NoStream EXCEPT !.pc = "opened", !.job = j]]
    /\ frames' = [frames EXCEPT ![o] = <<>>]
    /\ UNCHANGED <<aux, files, jobs, disk, subscribers, queues, published, run, pending, restarts, resp>>

\* Mutant of StreamSubscribe: the new queue starts with the job's history.
StreamSubscribeBacklog(o) ==
    /\ obs[o].pc = "opened"
    /\ subscribers' = subscribe(subscribers, obs[o].job, o)
    /\ queues' = [queues EXCEPT ![o] =
                     [i \in 1..Len(jobs[obs[o].job].events) |-> EventToDict(jobs[obs[o].job].events[i])]]
    /\ obs' = [obs EXCEPT ![o].pc = "replay", ![o].last_event_id = 0, ![o].idx = 0]
    /\ UNCHANGED <<aux, files, jobs, disk, published, run, pending, frames, restarts, resp>>

\* event_generator starts: queue = await event_broker.subscribe(job_id)
StreamSubscribe(o) ==
    /\ obs[o].pc = "opened"
    /\ subscribers' = subscribe(subscribers, obs[o].job, o)
    /\ queues' = [queues EXCEPT ![o] = <<>>]
    /\ obs' = [obs EXCEPT ![o].pc = "replay", ![o].last_event_id = 0, ![o].idx = 0]
    /\ UNCHANGED <<aux, files, jobs, disk, published, run, pending, frames, restarts, resp>>

\* One turn of "for event in record.events": the list iterator reads the live
\* list by index, so events appended during the replay are replayed too.  When
\* the list is exhausted the generator goes on to the tail loop.
StreamReplay(o) ==
    /\ obs[o].pc = "replay"
    /\ LET events == jobs[obs[o].job].events
       IN  IF obs[o].idx < Len(events)
           THEN LET payload == EventToDict(events[obs[o].idx + 1])
                IN  /\ obs' = [obs EXCEPT ![o].idx = @ + 1,
                                          ![o].last_event_id = Max(@, payload.id)]
                    /\ frames' = [frames EXCEPT ![o] = Append(@, payload)]
           ELSE /\ obs' = [obs EXCEPT ![o].pc = "tail"]
                /\ UNCHANGED frames
    /\ UNCHANGED <<aux, files, jobs, disk, subscribers, queues, published, run, pending, restarts, resp>>

\* Leaving event_generator: the finally block unsubscribes; the generator's
\* locals and its queue are dropped with it.
StreamEnd(o, how) ==
    /\ subscribers' = unsubscribe(subscribers, obs[o].job, o)
    /\ obs' = [obs EXCEPT ![o] = [NoStream EXCEPT !.pc = "done", !.job = obs[o].job, !.exit = how]]

\* if await request.is_disconnected(): break.  The observer is gone, and so
\* is what it had received.
StreamDisconnected(o) ==
    /\ obs[o].pc = "tail"
    /\ StreamEnd(o, "disconnected")
    /\ frames' = [frames EXCEPT ![o] = <<>>]
    /\ queues' = [queues EXCEPT ![o] = <<>>]
    /\ UNCHANGED <<aux, files, jobs, disk, published, run, pending, restarts, resp>>

\* queue.get() returns an event: discard, or yield, and break on a terminal one.
StreamGet(o) ==
    /\ obs[o].pc = "tail"
    /\ queues[o] # <<>>
    /\ LET event == Head(queues[o])
       IN  /\ queues' = [queues EXCEPT ![o] =
                            IF ~Discards(event.id, obs[o].last_event_id) /\ IsTerminalEvent(event)
                            THEN <<>> ELSE Tail(@)]
           /\ IF Discards(event.id, obs[o].last_event_id)
              THEN UNCHANGED <<obs, frames, subscribers>>
              ELSE /\ frames' = [frames EXCEPT ![o] = Append(@, event)]
                   /\ IF IsTerminalEvent(event)
                      THEN StreamEnd(o, "terminal")
                      ELSE /\ obs' = [obs EXCEPT ![o].last_event_id = Max(@, event.id)]
                           /\ UNCHANGED subscribers
    /\ UNCHANGED <<aux, files, jobs, disk, published, run, pending, restarts, resp>>

\* Mutant of StreamKeepAlive: the keep-alive moves the high-water mark on.
StreamKeepAliveCounts(o) ==
    /\ obs[o].pc = "tail"
    /\ queues[o] = <<>>
    /\ KeepAlivesSent(o) < MaxKeepAlive
    /\ frames' = [frames EXCEPT ![o] = Append(@, KeepAlive)]
    /\ obs' = [obs EXCEPT ![o].last_event_id = @ + 1]
    /\ UNCHANGED <<aux, files, jobs, disk, subscribers, queues, published, run, pending, restarts, resp>>

\* asyncio.TimeoutError after 5 idle seconds: yield ": keep-alive\n\n"
StreamKeepAlive(o) ==
    /\ obs[o].pc = "tail"
    /\ queues[o] = <<>>
    /\ KeepAlivesSent(o) < MaxKeepAlive
    /\ frames' = [frames EXCEPT ![o] = Append(@, KeepAlive)]
    /\ UNCHANGED <<aux, files, jobs, disk, subscribers, queues, published, run, pending, obs, restarts, resp>>

\* An exception (cancellation, aclose) raised into the suspended generator.
StreamAbort(o) ==
    /\ obs[o].pc \in {"replay", "tail"}
    /\ StreamEnd(o, "exception")
    /\ frames' = [frames EXCEPT ![o] = <<>>]
    /\ queues' = [queues EXCEPT ![o] = <<>>]
    /\ UNCHANGED <<aux, files, jobs, disk, published, run, pending, restarts, resp>>

\* ------------------------------------------- the store and emit_event alone
\* job_store.create_job called by itself: the record exists with an empty
\* history and no orchestrator run is scheduled for it.
CreateJob(j) ==
    /\ j \notin DOMAIN jobs
    /\ j \notin DOMAIN disk
    /\ \A k \in JobIds : k < j => k \in DOMAIN disk
    /\ LET st == create_job([jobs |-> jobs, disk |-> disk], j)
       IN  jobs' = st.jobs /\ disk' = st.disk
    /\ UNCHANGED <<aux, files, subscribers, queues, published, run, pending, obs, frames, restarts, resp>>

\* emit_event called by itself for a job that has no run, up to max events.
EmitEvent(j, max) ==
    /\ j \in DOMAIN jobs
    /\ run[j].pc = "none"
    /\ Len(jobs[j].events) < max
    /\ SetWorld(emit_event(World, subscribers, j, "progress", "none", Null))
    /\ UNCHANGED <<aux, files, subscribers, run, pending, obs, frames, restarts, resp>>

\* JobStore.update_status called by itself, with any id and status and with
\* the error and result passed (Null for one left at its default): what it
\* raised is the outcome of the call.
UpdateStatusCall(j, status, error, result) ==
    /\ LET st == update_status([jobs |-> jobs, disk |-> disk], j, status, error, result)
       IN  /\ jobs' = st.jobs
           /\ disk' = st.disk
           /\ resp' = Response("update_status", j, 0, st.raised, FALSE)
    /\ UNCHANGED <<aux, files, subscribers, queues, published, run, pending, obs, frames, restarts>>

\* JobStore.append_event called by itself, with any id.
AppendEventCall(j, max) ==
    /\ j \in DOMAIN jobs => Len(jobs[j].events) < max
    /\ LET st == append_event([jobs |-> jobs, disk |-> disk], j, "progress", "none", Null)
       IN  /\ jobs' = st.jobs
           /\ disk' = st.disk
           /\ resp' = Response("append_event", j, 0, st.raised, FALSE)
    /\ UNCHANGED <<aux, files, subscribers, queues, published, run, pending, obs, frames, restarts>>

\* emit_event called by itself, with any id.
EmitEventCall(j, max) ==
    /\ j \in DOMAIN jobs => Len(jobs[j].events) < max
    /\ LET w == emit_event(World, subscribers, j, "progress", "none", Null)
       IN  /\ SetWorld(w)
           /\ resp' = Response("emit_event", j, 0, w.raised, FALSE)
    /\ UNCHANGED <<aux, files, subscribers, run, pending, obs, frames, restarts>>

\* ------------------------------------- integrations/mcp/server.py: records
\* JSON-RPC request ids a client sends.
McpRequestIds == {"req-1", "req-2"}

\* MCPError(code, message, data=...): self.data = data or {}
MCPError(code, message, data) == [code |-> code, message |-> message, data |-> data]

\* MCPError.to_json: "data" is in the error object only when it is not empty.
to_json(exc, request_id) ==
    [jsonrpc |-> "2.0", id |-> request_id, result |-> Absent, error |-> Present([code |-> exc.code, message |-> exc.message, data |-> exc.data])]

\* ArtifactRecord.to_descriptor: "description" only when it is truthy,
\* "metadata" only when the dict is not empty.
artifact_to_descriptor(a) ==
    [artifactId |-> a.id, name |-> a.name, mimeType |-> a.mime_type, description |-> IF Truthy(a.description) THEN Present(a.description) ELSE Absent, metadata |-> IF a.metadata /= Absent THEN Present(a.metadata[1]) ELSE Absent]

\* ArtifactRecord.to_payload: the descriptor plus "content".
artifact_to_payload(a) ==
    LET d == artifact_to_descriptor(a)
    IN  [artifactId |-> d.artifactId, name |-> d.name, mimeType |-> d.mimeType, description |-> d.description, metadata |-> d.metadata, content |-> a.content]

\* JobRecord.to_descriptor(artifacts): the artifacts of artifact_ids that are
\* among the given ones, in the order of artifact_ids.
job_to_descriptor(record, artifacts) ==
    LET known == {i \in 1..Len(record.artifact_ids) : \E k \in 1..Len(artifacts) : artifacts[k].id = record.artifact_ids[i]}
        lookup(id) == artifacts[CHOOSE k \in 1..Len(artifacts) : artifacts[k].id = id /\ \A m \in (k + 1)..Len(artifacts) : artifacts[m].id /= id]
        kept == SelectSeq([i \in 1..Len(record.artifact_ids) |-> i], LAMBDA i : i \in known)
    IN  [jobId |-> record.id, createdAt |-> record.created_at, status |-> record.status, warnings |-> record.warnings, error |-> record.error, artifacts |-> [n \in 1..Len(kept) |-> artifact_to_descriptor(lookup(record.artifact_ids[kept[n]]))]]

\* ------------------------------------ integrations/mcp/server.py: JobStore
\* The store: _jobs and _artifacts, each in insertion order.  uuid4().hex is
\* a fresh id: the position of the entry.

\* JobStore._require_job: whether the id is known (MCPError -32000 if not).
require_job(s, job_id) == job_id \in DOMAIN s.jobs

\* JobStore.create_job.  created_at is the clock reading at creation: the
\* number of jobs created so far, so later jobs have later readings.
mcp_create_job(s) ==
    LET job_id == Len(s.jobs) + 1
    IN  [s EXCEPT !.jobs = Append(@, [id |-> job_id, created_at |-> job_id, status |-> "pending", warnings |-> <<>>, artifact_ids |-> <<>>, error |-> Null])]

\* A JobStore.update_status that sets the status and the warnings only.
mcp_update_statusDropsError(s, job_id, status, warnings, error) ==
    IF ~require_job(s, job_id) THEN s
    ELSE [s EXCEPT !.jobs[job_id].status = status, !.jobs[job_id].warnings = IF warnings /= Absent THEN warnings[1] ELSE @]

\* JobStore.update_status(job_id, status, warnings=..., error=...): the
\* keyword arguments that are None leave their field alone.
mcp_update_status(s, job_id, status, warnings, error) ==
    IF ~require_job(s, job_id) THEN s
    ELSE [s EXCEPT !.jobs[job_id].status = status, !.jobs[job_id].warnings = IF warnings /= Absent THEN warnings[1] ELSE @, !.jobs[job_id].error = IF error /= Absent THEN error[1] ELSE @]

\* A JobStore.register_artifact that stores the artifact without listing it
\* in the job's artifact_ids.
register_artifactUnlisted(s, job_id, name, content, description, metadata) ==
    LET artifact_id == Len(s.artifacts) + 1
    IN  [s EXCEPT !.artifacts = Append(@, [id |-> artifact_id, job_id |-> job_id, name |-> name, mime_type |-> "text/markdown", content |-> content, description |-> description, metadata |-> metadata])]

\* JobStore.register_artifact: metadata = metadata or {}.  The new artifact
\* is the last of the returned store's artifacts.
register_artifact(s, job_id, name, content, description, metadata) ==
    IF ~require_job(s, job_id) THEN s
    ELSE LET artifact_id == Len(s.artifacts) + 1
         IN  [jobs |-> [s.jobs EXCEPT ![job_id].artifact_ids = Append(@, artifact_id)], artifacts |-> Append(s.artifacts, [id |-> artifact_id, job_id |-> s.jobs[job_id].id, name |-> name, mime_type |-> "text/markdown", content |-> content, description |-> description, metadata |-> metadata])]

\* JobStore.describe_job
describe_job(s, job_id) ==
    LET record == s.jobs[job_id]
        ids == SelectSeq(record.artifact_ids, LAMBDA id : id \in DOMAIN s.artifacts)
    IN  job_to_descriptor(record, [i \in 1..Len(ids) |-> s.artifacts[ids[i]]])

\* JobStore.get_artifact: the record, or MCPError -32001.
get_artifact(s, artifact_id) ==
    IF artifact_id \in DOMAIN s.artifacts
    THEN [raised |-> Absent, artifact |-> Present(s.artifacts[artifact_id])]
    ELSE [raised |-> Present(MCPError(-32001, "Unknown artifact", Absent)), artifact |-> Absent]

\* sorted(records, key=created_at, reverse=True): a stable sort, so records
\* with equal keys keep their order.
RECURSIVE sorted_newest_first(_)
sorted_newest_first(records) ==
    IF records = <<>> THEN <<>>
    ELSE LET k == CHOOSE i \in 1..Len(records) : /\ \A n \in 1..Len(records) : records[n].created_at <= records[i].created_at
                                                  /\ \A e \in 1..(i - 1) : records[e].created_at < records[i].created_at
         IN  <<records[k]>> \o sorted_newest_first(SubSeq(records, 1, k - 1) \o SubSeq(records, k + 1, Len(records)))

\* JobStore.list_jobs(limit): jobs[:max(limit, 0)] of the newest-first list.
list_jobs(s, limit) ==
    LET sorted == sorted_newest_first(s.jobs)
        limited == IF limit >= 0 THEN SubSeq(sorted, 1, Min(Max(limit, 0), Len(sorted))) ELSE <<>>
    IN  [i \in 1..Len(limited) |-> describe_job(s, limited[i].id)]

\* ----------------------------------- integrations/mcp/server.py: MCPServer
\* f"chunk-{index:04d}": the index in at least four decimal digits.
ChunkName(index) == <<"chunk-", (index \div 1000) % 10, (index \div 100) % 10, (index \div 10) % 10, index % 10>>

\* A RepoSnapshot with k chunks, as collect_repo_snapshot numbers them
\* (index = len(chunks) + 1).
Snapshot(k) ==
    [repo_map_text |-> "repo map", warnings |-> IF k = 0 THEN <<"no files">> ELSE <<>>, chunks |-> [i \in 1..k |-> [index |-> i, token_count |-> 10 * i, file_count |-> i, content |-> <<"content", i>>]]]

\* What the body of the try block of _tool_process_repo does: it returns
\* with a snapshot, or raises before any artifact is stored ("prepare":
\* _prepare_repository, collect_repo_snapshot) or after ("summary":
\* _build_token_summary).
McpExcKinds == {"MCPError", "GitCommandError", "Exception"}
McpOutcomes ==
    {[kind |-> "ok", chunks |-> k, exc |-> "none", stage |-> "none"] : k \in 0..MaxChunks}
        \cup {[kind |-> "raise", chunks |-> MaxChunks, exc |-> e, stage |-> st] : e \in McpExcKinds, st \in {"prepare", "summary"}}

\* exc.message of an MCPError, str(exc) of the others.
McpErrorText(exc) ==
    CASE exc = "MCPError" -> "Unknown job"
      [] exc = "GitCommandError" -> "git clone failed"
      [] exc = "Exception" -> "snapshot failed"

\* The MCPError that leaves _tool_process_repo for an exception of the try
\* block: an MCPError is re-raised as it is.
McpRaised(exc) ==
    CASE exc = "MCPError" -> MCPError(-32000, "Unknown job", Absent)
      [] exc = "GitCommandError" -> MCPError(-32010, "Failed to prepare repository", Absent)
      [] exc = "Exception" -> MCPError(-32603, "Failed to process repository", Present(McpErrorText(exc)))

\* MCPServer._store_snapshot_artifacts: the repo map, then the chunks in
\* order; returns the descriptors of what it registered.
RECURSIVE store_chunks(_, _, _, _)
store_chunks(s, job_id, chunks, descriptors) ==
    IF chunks = <<>> THEN [store |-> s, descriptors |-> descriptors]
    ELSE LET chunk == Head(chunks)
             s1 == register_artifact(s, job_id, ChunkName(chunk.index), chunk.content, Null, Present([tokenCount |-> chunk.token_count, fileCount |-> chunk.file_count]))
         IN  store_chunks(s1, job_id, Tail(chunks), Append(descriptors, artifact_to_descriptor(s1.artifacts[Len(s1.artifacts)])))

store_snapshot_artifacts(s, job_id, snapshot) ==
    LET s1 == register_artifact(s, job_id, "repo-map", snapshot.repo_map_text, "Consolidated repository structure", Absent)
    IN  store_chunks(s1, job_id, snapshot.chunks, <<artifact_to_descriptor(s1.artifacts[Len(s1.artifacts)])>>)

\* MCPServer._tool_process_repo: the arguments are validated before the job
\* is created; then the job is created, set running, and the try block sets
\* it completed or, in each except clause, failed.
tool_process_repo(s, repository, outcome) ==
    IF ~Truthy(repository)
    THEN [store |-> s, raised |-> Present(MCPError(-32602, "'repository' is required", Absent)), result |-> Absent]
    ELSE LET s1 == mcp_create_job(s)
             job_id == s1.jobs[Len(s1.jobs)].id
             s2 == mcp_update_status(s1, job_id, "running", Absent, Absent)
             snapshot == Snapshot(outcome.chunks)
             stored == store_snapshot_artifacts(s2, job_id, snapshot)
         IN  IF outcome.kind = "ok"
             THEN LET s3 == mcp_update_status(stored.store, job_id, "completed", Present(snapshot.warnings), Absent)
                      payload == describe_job(s3, job_id)
                  IN  [store |-> s3, raised |-> Absent, result |-> Present([payload EXCEPT !.artifacts = stored.descriptors])]
             ELSE LET reached == IF outcome.stage = "prepare" THEN s2 ELSE stored.store
                  IN  [store |-> mcp_update_status(reached, job_id, "failed", Absent, Present(McpErrorText(outcome.exc))), raised |-> Present(McpRaised(outcome.exc)), result |-> Absent]

\* MCPServer._tool_list_recent_jobs: limit defaults to 10 and is clamped to
\* 1..50.
LimitArgs == {Null, "0", "1", "2"}
IntOf(v) == CASE v = "0" -> 0 [] v = "1" -> 1 [] v = "2" -> 2
tool_list_recent_jobs(s, limit_value) ==
    LET limit == IF limit_value = Null THEN 10 ELSE IntOf(limit_value)
    IN  [store |-> s, raised |-> Absent, result |-> Present([jobs |-> list_jobs(s, Max(1, Min(limit, 50)))])]

\* MCPServer._tool_get_artifact
tool_get_artifact(s, artifact_id) ==
    IF artifact_id = 0
    THEN [store |-> s, raised |-> Present(MCPError(-32602, "'artifactId' is required", Absent)), result |-> Absent]
    ELSE LET found == get_artifact(s, artifact_id)
         IN  IF found.raised /= Absent
             THEN [store |-> s, raised |-> found.raised, result |-> Absent]
             ELSE [store |-> s, raised |-> Absent, result |-> Present([artifact |-> artifact_to_payload(found.artifact[1])])]

\* MCPServer._handle_single for a callTool request: the tool's result under
\* the request id, or the MCPError's to_json under the request id.
handle_single(request_id, name, call) ==
    IF call.raised /= Absent THEN to_json(call.raised[1], request_id)
    ELSE [jsonrpc |-> "2.0", id |-> request_id, result |-> Present([tool |-> name, result |-> call.result[1]]), error |-> Absent]

\* callTool processRepo: _tool_process_repo has no await between creating
\* the job and returning or raising, so the whole call is one step.
ProcessRepo(request_id, repository, outcome) ==
    /\ Len(mcp.store.jobs) < MaxMcpJobs
    /\ LET call == tool_process_repo(mcp.store, repository, outcome)
       IN  mcp' = [store |-> call.store, request |-> [id |-> request_id, tool |-> "processRepo", outcome |-> IF Truthy(repository) THEN outcome.kind ELSE "invalid", arg |-> outcome.chunks], response |-> handle_single(request_id, "processRepo", call)]
    /\ UNCHANGED <<server, api_key_env, request, chunker, loop>>

\* callTool listRecentJobs
ListRecentJobs(request_id, limit_value) ==
    /\ LET call == tool_list_recent_jobs(mcp.store, limit_value)
       IN  mcp' = [store |-> call.store, request |-> [id |-> request_id, tool |-> "listRecentJobs", outcome |-> "none", arg |-> 0], response |-> handle_single(request_id, "listRecentJobs", call)]
    /\ UNCHANGED <<server, api_key_env, request, chunker, loop>>

\* callTool getArtifact; artifact id 0 is a request without "artifactId".
GetArtifact(request_id, artifact_id) ==
    /\ LET call == tool_get_artifact(mcp.store, artifact_id)
       IN  mcp' = [store |-> call.store, request |-> [id |-> request_id, tool |-> "getArtifact", outcome |-> "none", arg |-> artifact_id], response |-> handle_single(request_id, "getArtifact", call)]
    /\ UNCHANGED <<server, api_key_env, request, chunker, loop>>

\* ------------------------------------------------ the chunk writer's loop
\* One turn of "for file_name in files": a file that fails a filter is
\* passed over; an included file's block is counted, the current chunk is
\* closed first when must_split says so, and the block is written.
ChunkFile ==
    /\ ~chunker.done
    /\ chunker.pos < Len(chunker.files)
    /\ LET f == chunker.files[chunker.pos + 1]
           block_tokens == estimator_count(chunker.enabled, f.length)
           c1 == IF must_split(chunker.limit, chunker.chunk_tokens, block_tokens) THEN finalize_chunk(chunker) ELSE chunker
       IN  chunker' = IF ~f.included THEN [chunker EXCEPT !.pos = @ + 1]
                      ELSE [c1 EXCEPT !.pos = @ + 1, !.buffer = Append(@, chunker.pos + 1), !.chunk_tokens = @ + block_tokens, !.chunk_file_count = @ + 1]
    /\ UNCHANGED <<server, api_key_env, request, mcp, loop>>

\* After the walk: generate_consolidated_file closes the current chunk
\* whatever it holds; _generate_consolidated_chunks appends it when
\* something was written to it or no chunk exists yet.
ChunkFinish ==
    /\ ~chunker.done
    /\ chunker.pos = Len(chunker.files)
    /\ LET last == chunker.variant = "main" \/ chunker.buffer /= <<>> \/ chunker.chunk_file_count /= 0 \/ chunker.chunks = <<>>
       IN  chunker' = [(IF last THEN finalize_chunk(chunker) ELSE chunker) EXCEPT !.done = TRUE]
    /\ UNCHANGED <<server, api_key_env, request, mcp, loop>>

\* -------------------------------- what each coroutine does with the locks
\* The points of a coroutine where a lock is taken ("async with self._lock"),
\* where it is given back (the end of the with block) and where the
\* coroutine does something else that lets other tasks run.
Acquire(l) == [do |-> "acquire", lock |-> l]
Release(l) == [do |-> "release", lock |-> l]
Await(what) == [do |-> what, lock |-> "none"]

\* JobStore.create_job, get_job, update_status, append_event: the whole body
\* is inside the store lock and calls nothing that takes a lock.
store_call_steps == <<Acquire("store"), Release("store")>>

\* EventBroker.subscribe, unsubscribe: the whole body is inside the broker
\* lock.
broker_call_steps == <<Acquire("broker"), Release("broker")>>

\* EventBroker.publish: the list is copied inside the broker lock, the puts
\* come after it.
publish_steps == <<Acquire("broker"), Release("broker"), Await("put")>>

\* An emit_event that publishes before append_event gives the store lock
\* back.
emit_event_stepsNested == <<Acquire("store"), Acquire("broker"), Release("broker"), Await("put"), Release("store")>>

\* emit_event: append_event, then publish.
emit_event_steps == store_call_steps \o publish_steps

\* _run_job: get_job, update_status, emit_event, the worker thread,
\* update_status, emit_event.
run_job_steps == store_call_steps \o store_call_steps \o emit_event_steps \o <<Await("to_thread")>> \o store_call_steps \o emit_event_steps

\* submit_job: create_job, emit_event.
submit_job_steps == store_call_steps \o emit_event_steps

\* stream_job_events: get_job, subscribe, the wait on the queue (which ends
\* after 5 seconds at the latest), unsubscribe.
stream_job_events_steps == store_call_steps \o broker_call_steps \o <<Await("get")>> \o broker_call_steps

TaskOps == {"emit_event", "_run_job", "submit_job", "get_job", "stream_job_events"}
Steps(op) ==
    CASE op = "emit_event" -> emit_event_steps
      [] op = "_run_job" -> run_job_steps
      [] op = "submit_job" -> submit_job_steps
      [] op = "get_job" -> store_call_steps
      [] op = "stream_job_events" -> stream_job_events_steps
      [] OTHER -> <<>>

\* The step a task is at; a task past its last step has none.
AtStep(t) ==
    LET steps == Steps(locks.task[t].op)
    IN  IF locks.task[t].at \in DOMAIN steps THEN steps[locks.task[t].at] ELSE Await("return")

\* A task is created: an emitter call, an orchestrator run, a request.
TaskBegin(t, op) ==
    /\ locks.task[t] = IdleTask
    /\ locks' = [locks EXCEPT !.task[t] = [op |-> op, at |-> 1]]
    /\ UNCHANGED <<server, api_key_env, request, tools, ready>>

\* Lock.acquire: taken when the lock is free; the task waits otherwise.
TaskAcquire(t) ==
    /\ AtStep(t).do = "acquire"
    /\ locks.holder[AtStep(t).lock] = 0
    /\ locks' = [locks EXCEPT !.holder[AtStep(t).lock] = t, !.task[t].at = @ + 1]
    /\ UNCHANGED <<server, api_key_env, request, tools, ready>>

\* Lock.release at the end of the with block.
TaskRelease(t) ==
    /\ AtStep(t).do = "release"
    /\ locks' = [locks EXCEPT !.holder[AtStep(t).lock] = 0, !.task[t].at = @ + 1]
    /\ UNCHANGED <<server, api_key_env, request, tools, ready>>

\* A step outside the locks: queue.put, the worker thread, queue.get.
TaskAwait(t) ==
    /\ AtStep(t).do \in {"put", "to_thread", "get"}
    /\ locks' = [locks EXCEPT !.task[t].at = @ + 1]
    /\ UNCHANGED <<server, api_key_env, request, tools, ready>>

\* The coroutine returns and its task is gone.
TaskReturn(t) ==
    /\ locks.task[t] /= IdleTask
    /\ AtStep(t).do = "return"
    /\ locks' = [locks EXCEPT !.task[t] = IdleTask]
    /\ UNCHANGED <<server, api_key_env, request, tools, ready>>

\* ------------------------------------- the event loop's queue of callbacks
\* loop._ready: call_soon and call_soon_threadsafe put a callback at the
\* end, the loop runs the callback at the front.
Callback(kind, j) == [kind |-> kind, job |-> j]

\* A call_soon that puts the callback at the front.
call_soonAtFront(q, callback) == <<callback>> \o q

call_soon(q, callback) == Append(q, callback)

\* The worker thread calls the emitter: run_coroutine_threadsafe hands the
\* loop a callback that will make the emit_event task, and returns.
EmitterCall(j, max) ==
    /\ run[j].pc = "thread"
    /\ run[j].emitted < max
    /\ run' = [run EXCEPT ![j].emitted = @ + 1]
    /\ ready' = call_soon(ready, Callback("ensure_future", j))
    /\ UNCHANGED <<api_key_env, request, tools, locks, files, jobs, disk, subscribers, queues, published, pending, obs, frames, restarts, resp>>

\* _process_job_sync returns or raises (exc = "none": returns, after at
\* least one emitter call): the executor's future is done, and its done
\* callback hands the loop the callback that completes the awaited future.
ThreadEnds(j, exc) ==
    /\ run[j].pc = "thread"
    /\ exc = "none" => run[j].emitted >= 1
    /\ run' = [run EXCEPT ![j].pc = IF exc = "none" THEN "returned" ELSE "raised", ![j].exc = exc]
    /\ files' = IF exc = "none" THEN [files EXCEPT ![j] = ResultFiles] ELSE files
    /\ ready' = call_soon(ready, Callback("set_state", j))
    /\ UNCHANGED <<api_key_env, request, tools, locks, jobs, disk, subscribers, queues, published, pending, obs, frames, restarts, resp>>

\* The loop runs the emitter's callback: ensure_future creates the task of
\* the emit_event coroutine, whose first step is put on the queue.
LoopEnsureFuture ==
    /\ ready /= <<>>
    /\ Head(ready).kind = "ensure_future"
    /\ ready' = call_soon(Tail(ready), Callback("step", Head(ready).job))
    /\ UNCHANGED <<server, api_key_env, request, tools, locks>>

\* The loop runs the step of an emit_event task: neither lock is held by
\* another task and the queues are unbounded, so the coroutine runs to its
\* end in this one step.
LoopStep ==
    /\ ready /= <<>>
    /\ Head(ready).kind = "step"
    /\ SetWorld(emit_event(World, subscribers, Head(ready).job, "progress", "none", Null))
    /\ ready' = Tail(ready)
    /\ UNCHANGED <<api_key_env, request, tools, locks, files, subscribers, run, pending, obs, frames, restarts, resp>>

\* The loop completes the future _run_job awaits: the wakeup of the _run_job
\* task is put on the queue.
LoopSetState ==
    /\ ready /= <<>>
    /\ Head(ready).kind = "set_state"
    /\ ready' = call_soon(Tail(ready), Callback("wakeup", Head(ready).job))
    /\ UNCHANGED <<server, api_key_env, request, tools, locks>>

\* The loop wakes _run_job: the except branch or the completed branch, as
\* in RunFinish.
LoopWakeup ==
    /\ ready /= <<>>
    /\ Head(ready).kind = "wakeup"
    /\ LET j == Head(ready).job
           o == Outcome(run[j])
           st == update_status([jobs |-> jobs, disk |-> disk], j, o.status, o.error, o.result)
           w0 == [World EXCEPT !.jobs = st.jobs, !.disk = st.disk]
           w1 == emit_event(w0, subscribers, j, "status", StatusValue(o.status), o.error)
       IN  /\ SetWorld(w1)
           /\ run' = [run EXCEPT ![j].pc = "done"]
    /\ ready' = Tail(ready)
    /\ UNCHANGED <<api_key_env, request, tools, locks, files, subscribers, pending, obs, frames, restarts, resp>>

\* ------------------------------------------------------ the broker alone
\* event_broker.subscribe called by itself, for any job id: the queue is a
\* new asyncio.Queue(), one that is on no list yet.
BrokerSubscribe(j, q) ==
    /\ \A k \in DOMAIN subscribers : ~ListHas(subscribers[k], q)
    /\ subscribers' = subscribe(subscribers, j, q)
    /\ queues' = [queues EXCEPT ![q] = <<>>]
    /\ UNCHANGED <<aux, files, jobs, disk, published, run, pending, obs, frames, restarts, resp>>

\* event_broker.unsubscribe called by itself, with any job id and any queue,
\* registered for that job or not.
BrokerUnsubscribe(j, q) ==
    /\ subscribers' = unsubscribe(subscribers, j, q)
    /\ UNCHANGED <<aux, files, jobs, disk, queues, published, run, pending, obs, frames, restarts, resp>>

\* ---------------------------------------------------------------- restart
\* The process ends and starts again: a new JobStore loads the storage root,
\* a new EventBroker is empty, and no task or stream of the old process is left.
\* When _load_existing_jobs raises, JobStore(...) raises with it and the
\* process has no store: the response names the exception.
Restart ==
    /\ restarts < MaxRestarts
    /\ restarts' = restarts + 1
    /\ jobs' = IF load_raises(disk) THEN EmptyMap ELSE load_existing_jobs(disk)
    /\ subscribers' = EmptyMap
    /\ queues' = [o \in Observers |-> <<>>]
    /\ published' = [j \in JobIds |-> <<>>]
    /\ run' = [j \in JobIds |-> NoRun]
    /\ pending' = [j \in JobIds |-> 0]
    /\ obs' = [o \in Observers |-> NoStream]
    /\ frames' = [o \in Observers |-> <<>>]
    /\ resp' = IF load_raises(disk) THEN Response("startup", 0, 0, "TypeError", FALSE) ELSE NoResponse
    /\ UNCHANGED <<aux, files, disk>>

Next ==
    \/ \E j \in JobIds : SubmitJob(j)
    \/ \E j \in JobIds : RunStart(j)
    \/ \E j \in JobIds : ThreadEmit(j, MaxProgress)
    \/ \E j \in JobIds : LoopEmit(j)
    \/ \E j \in JobIds : ThreadReturn(j)
    \/ \E j \in JobIds, exc \in ExcKinds : ThreadRaise(j, exc)
    \/ \E j \in JobIds : RunFinish(j)
    \/ \E o \in Observers, j \in JobIds : StreamOpen(o, j)
    \/ \E o \in Observers : StreamSubscribe(o)
    \/ \E o \in Observers : StreamReplay(o)
    \/ \E o \in Observers : StreamDisconnected(o)
    \/ \E o \in Observers : StreamGet(o)
    \/ \E o \in Observers : StreamKeepAlive(o)
    \/ \E o \in Observers : StreamAbort(o)

Spec == Init /\ [][Next]_vars

\* The orchestration alone across a process restart: no stream is open.
NextRestart ==
    \/ \E j \in JobIds : SubmitJob(j)
    \/ \E j \in JobIds : RunStart(j)
    \/ \E j \in JobIds : ThreadEmit(j, MaxProgress)
    \/ \E j \in JobIds : LoopEmit(j)
    \/ \E j \in JobIds : ThreadReturn(j)
    \/ \E j \in JobIds, exc \in ExcKinds : ThreadRaise(j, exc)
    \/ \E j \in JobIds : RunFinish(j)
    \/ Restart

SpecRestart == Init /\ [][NextRestart]_vars

\* The control plane: jobs are submitted and run, with up to MaxApiProgress
\* emitter calls and the exceptions of AllExcKinds, while a client asks for
\* records and artifacts.  No stream is open.
NextApi ==
    \/ \E j \in JobIds : SubmitJob(j)
    \/ \E j \in JobIds : RunStart(j)
    \/ \E j \in JobIds : ThreadEmit(j, MaxApiProgress)
    \/ \E j \in JobIds : LoopEmit(j)
    \/ \E j \in JobIds : ThreadReturn(j)
    \/ \E j \in JobIds, exc \in AllExcKinds : ThreadRaise(j, exc)
    \/ \E j \in JobIds : RunFinish(j)
    \/ \E j \in JobIds : GetJob(j)
    \/ \E j \in JobIds : GetArtifacts(j)
    \/ \E j \in JobIds, f \in ResultFiles : RemoveFile(j, f)

SpecApi == Init /\ [][NextApi]_vars

\* Streams on jobs that were created with an empty history and get their
\* events from emit_event calls; no orchestrator runs.
NextStream ==
    \/ \E j \in JobIds : CreateJob(j)
    \/ \E j \in JobIds : EmitEvent(j, MaxStreamEvents)
    \/ \E o \in Observers, j \in JobIds : StreamOpen(o, j)
    \/ \E o \in Observers : StreamSubscribe(o)
    \/ \E o \in Observers : StreamReplay(o)
    \/ \E o \in Observers : StreamDisconnected(o)
    \/ \E o \in Observers : StreamGet(o)
    \/ \E o \in Observers : StreamKeepAlive(o)
    \/ \E o \in Observers : StreamAbort(o)

SpecStream == Init /\ [][NextStream]_vars

\* The HTTP endpoints behind require_api_key, for each setting of
\* REPO2GPT_API_KEY, with the orchestrator running the admitted jobs and the
\* admitted streams subscribing.
InitAuth ==
    /\ InitServer
    /\ api_key_env \in ApiKeyEnvs
    /\ request = NoRequest
    /\ InitTools
    /\ InitLoop

NextAuth ==
    \/ \E j \in JobIds, key \in ApiKeys : SubmitJobRequest(j, key)
    \/ \E j \in JobIds, key \in ApiKeys : GetJobRequest(j, key)
    \/ \E j \in JobIds, key \in ApiKeys : GetArtifactsRequest(j, key)
    \/ \E o \in Observers, j \in JobIds, key \in ApiKeys : StreamRequest(o, j, key)
    \/ \E key \in ApiKeys : HealthCheck(key)
    \/ \E j \in JobIds : RunStart(j)
    \/ \E o \in Observers : StreamSubscribe(o)

SpecAuth == InitAuth /\ [][NextAuth]_vars

\* The store and emit_event called directly, with known and unknown ids,
\* while streams open and subscribe.
NextStore ==
    \/ \E j \in JobIds : CreateJob(j)
    \/ \E j \in JobIds, status \in JobStatusMembers : UpdateStatusCall(j, status, Null, Null)
    \/ \E j \in JobIds : AppendEventCall(j, MaxStreamEvents)
    \/ \E j \in JobIds : EmitEventCall(j, MaxStreamEvents)
    \/ \E o \in Observers, j \in JobIds : StreamOpen(o, j)
    \/ \E o \in Observers : StreamSubscribe(o)

SpecStore == Init /\ [][NextStore]_vars

\* The orchestration on a storage root whose writes can fail.
NextFault ==
    \/ \E j \in JobIds : SubmitJob(j)
    \/ \E j \in JobIds : RunStart(j)
    \/ \E j \in JobIds, at \in StoreCalls, torn \in BOOLEAN : RunStartRaises(j, at, torn)
    \/ \E j \in JobIds : ThreadEmit(j, MaxProgress)
    \/ \E j \in JobIds : LoopEmit(j)
    \/ \E j \in JobIds, torn \in BOOLEAN : LoopEmitRaises(j, torn)
    \/ \E j \in JobIds : ThreadReturn(j)
    \/ \E j \in JobIds, exc \in ExcKinds : ThreadRaise(j, exc)
    \/ \E j \in JobIds : RunFinish(j)
    \/ \E j \in JobIds, at \in StoreCalls, torn \in BOOLEAN : RunFinishRaises(j, at, torn)

SpecFault == Init /\ [][NextFault]_vars

\* The MCP server alone: tool calls with any request id and arguments.
McpArtifactIds == 0..(MaxMcpJobs * (MaxChunks + 1) + 1)

NextMcp ==
    \/ \E request_id \in McpRequestIds, repository \in {Null, "repo"}, outcome \in McpOutcomes : ProcessRepo(request_id, repository, outcome)
    \/ \E request_id \in McpRequestIds, limit_value \in LimitArgs : ListRecentJobs(request_id, limit_value)
    \/ \E request_id \in McpRequestIds, artifact_id \in McpArtifactIds : GetArtifact(request_id, artifact_id)

SpecMcp == Init /\ [][NextMcp]_vars

\* The chunk writers alone: a call of either one on any walked files, with
\* the estimator enabled or not and any chunk_token_limit.
InitChunk ==
    /\ InitServer
    /\ api_key_env = Null
    /\ request = NoRequest
    /\ mcp = InitMcp
    /\ InitLoop
    /\ chunker \in {StartChunker(variant, walked, enabled, limit) : variant \in {"main", "service"}, walked \in WalkedFiles, enabled \in BOOLEAN, limit \in ChunkLimitArgs}

NextChunk ==
    \/ ChunkFile
    \/ ChunkFinish

SpecChunk == InitChunk /\ [][NextChunk]_vars

\* The tasks of the event loop at the grain of their locks: any tasks, of any
\* kinds, created at any time; between two steps of a task any other task
\* may step.
NextLocks ==
    \/ \E t \in TaskIds, op \in TaskOps : TaskBegin(t, op)
    \/ \E t \in TaskIds : TaskAcquire(t)
    \/ \E t \in TaskIds : TaskRelease(t)
    \/ \E t \in TaskIds : TaskAwait(t)
    \/ \E t \in TaskIds : TaskReturn(t)

SpecLocks == Init /\ [][NextLocks]_vars

\* What a job directory of the storage root can hold when the process
\* starts: a status document written in full (any status, with the history
\* the lifecycle has left), a torn one, one whose status is no JobStatus
\* value, or one whose id is a JSON array.  A directory that has no
\* status.json is a job id that is not in the domain.
StoredDocuments(j) ==
    {RecordToDict([id |-> j, status |-> s, created_at |-> j, request |-> Payload, events |-> [i \in 1..n |-> JobEvent(i, "progress", "none", Null)], result |-> Null, error |-> Null]) : s \in JobStatusMembers, n \in 0..MaxStreamEvents}
        \cup {TornDocument(j)}
        \cup {[RecordToDict(create_job([jobs |-> EmptyMap, disk |-> EmptyMap], j).jobs[j]) EXCEPT !.status = "paused"]}
        \cup {[RecordToDict(create_job([jobs |-> EmptyMap, disk |-> EmptyMap], j).jobs[j]) EXCEPT !.id = 0]}

\* The start of the process on a storage root left by earlier processes.
InitLoad ==
    /\ jobs = EmptyMap
    /\ \E dirs \in SUBSET JobIds : disk \in {f \in [dirs -> UNION {StoredDocuments(j) : j \in JobIds}] : \A j \in dirs : f[j] \in StoredDocuments(j)}
    /\ subscribers = EmptyMap
    /\ queues = [o \in Observers |-> <<>>]
    /\ published = [j \in JobIds |-> <<>>]
    /\ run = [j \in JobIds |-> NoRun]
    /\ pending = [j \in JobIds |-> 0]
    /\ obs = [o \in Observers |-> NoStream]
    /\ frames = [o \in Observers |-> <<>>]
    /\ restarts = 0
    /\ resp = NoResponse
    /\ files = [j \in JobIds |-> {}]
    /\ InitAux

\* The process that starts on such a root: the load, the store's
\* append_event called directly, and, once the module-level
\* "job_store = JobStore(...)" has returned, jobs submitted and run.
NextLoad ==
    \/ Restart
    \/ \E j \in JobIds : AppendEventCall(j, MaxStreamEvents + 1)
    \/ \E j \in JobIds : restarts >= 1 /\ ~load_raises(disk) /\ SubmitJob(j)
    \/ \E j \in JobIds : RunStart(j)
    \/ \E j \in JobIds : ThreadEmit(j, MaxProgress)
    \/ \E j \in JobIds : LoopEmit(j)
    \/ \E j \in JobIds : ThreadReturn(j)
    \/ \E j \in JobIds, exc \in ExcKinds : ThreadRaise(j, exc)
    \/ \E j \in JobIds : RunFinish(j)

SpecLoad == InitLoad /\ [][NextLoad]_vars

\* JobStore.create_job called by itself when its write raises OSError.
CreateJobRaises(j, torn) ==
    /\ j \notin DOMAIN jobs
    /\ j \notin DOMAIN disk
    /\ \A k \in JobIds : k < j => k \in DOMAIN disk
    /\ LET st == create_job_raises([jobs |-> jobs, disk |-> disk], j, torn)
       IN  jobs' = st.jobs /\ disk' = st.disk
    /\ resp' = Response("create_job", j, 0, "OSError", FALSE)
    /\ UNCHANGED <<aux, files, subscribers, queues, published, run, pending, obs, frames, restarts>>

\* JobStore.update_status called by itself on a job of the store when its
\* write raises OSError.
UpdateStatusRaises(j, status, torn) ==
    /\ j \in DOMAIN jobs
    /\ LET st == update_status_raises([jobs |-> jobs, disk |-> disk], j, status, Null, Null, torn)
       IN  jobs' = st.jobs /\ disk' = st.disk
    /\ resp' = Response("update_status", j, 0, "OSError", FALSE)
    /\ UNCHANGED <<aux, files, subscribers, queues, published, run, pending, obs, frames, restarts>>

\* JobStore.append_event called by itself on a job of the store when its
\* write raises OSError.  max bounds the events of one job.
AppendEventRaises(j, max, torn) ==
    /\ j \in DOMAIN jobs
    /\ Len(jobs[j].events) < max
    /\ LET st == append_event_raises([jobs |-> jobs, disk |-> disk], j, "progress", "none", Null, torn)
       IN  jobs' = st.jobs /\ disk' = st.disk
    /\ resp' = Response("append_event", j, 0, "OSError", FALSE)
    /\ UNCHANGED <<aux, files, subscribers, queues, published, run, pending, obs, frames, restarts>>

\* The store used directly on a storage root whose writes can fail.
NextStoreFault ==
    \/ \E j \in JobIds : CreateJob(j)
    \/ \E j \in JobIds, torn \in BOOLEAN : CreateJobRaises(j, torn)
    \/ \E j \in JobIds, status \in JobStatusMembers : UpdateStatusCall(j, status, Null, Null)
    \/ \E j \in JobIds, status \in JobStatusMembers, torn \in BOOLEAN : UpdateStatusRaises(j, status, torn)
    \/ \E j \in JobIds : AppendEventCall(j, MaxStreamEvents)
    \/ \E j \in JobIds, torn \in BOOLEAN : AppendEventRaises(j, MaxStreamEvents, torn)

SpecStoreFault == Init /\ [][NextStoreFault]_vars

\* update_status called with every status and with error and result passed
\* or left at their default None.
NextUpdate ==
    \/ \E j \in JobIds : CreateJob(j)
    \/ \E j \in JobIds, status \in JobStatusMembers, error \in {Null, ErrorText("ValueError")}, result \in {Null, SnapshotResult} : UpdateStatusCall(j, status, error, result)

SpecUpdate == Init /\ [][NextUpdate]_vars

\* The orchestrator with the workspace of the worker thread: made by
\* _prepare_repository, cleaned by the finally clause of _process_job_sync.
NextWorkspace ==
    \/ \E j \in JobIds : SubmitJob(j)
    \/ \E j \in JobIds : RunStart(j)
    \/ \E j \in JobIds : ThreadEmit(j, 1)
    \/ \E j \in JobIds, readonly \in BOOLEAN : ThreadPrepare(j, readonly)
    \/ \E j \in JobIds : LoopEmit(j)
    \/ \E j \in JobIds : ThreadReturnCleans(j)
    \/ \E j \in JobIds, exc \in ExcKinds : ThreadRaiseCleans(j, exc)
    \/ \E j \in JobIds : RunFinish(j)

SpecWorkspace == Init /\ [][NextWorkspace]_vars

NextSchedule ==
    \/ \E j \in JobIds : CreateJob(j)
    \/ \E j \in JobIds : ScheduleJob(j)
    \/ \E j \in JobIds : RunStart(j)
    \/ \E j \in JobIds : ThreadEmit(j, MaxProgress)
    \/ \E j \in JobIds : LoopEmit(j)
    \/ \E j \in JobIds : ThreadReturn(j)
    \/ \E j \in JobIds, exc \in ExcKinds : ThreadRaise(j, exc)
    \/ \E j \in JobIds : RunFinish(j)
    \/ \E j \in JobIds, q \in Observers : BrokerSubscribe(j, q)

\* The orchestrator started through _schedule_job for ids that are or are
\* not in the store, with observers registered at the broker.
SpecSchedule == Init /\ [][NextSchedule]_vars

\* The broker alone: subscribe and unsubscribe calls with any arguments, and
\* events published to the queues.
NextBroker ==
    \/ \E j \in JobIds, q \in Observers : BrokerSubscribe(j, q)
    \/ \E j \in JobIds, q \in Observers : BrokerUnsubscribe(j, q)
    \/ \E j \in JobIds : CreateJob(j)
    \/ \E j \in JobIds : EmitEventCall(j, MaxStreamEvents)

SpecBroker == Init /\ [][NextBroker]_vars

\* The orchestration with the loop's callback queue spelled out: what the
\* worker thread hands over, and the order in which the loop runs it.
NextReady ==
    \/ \E j \in JobIds : SubmitJob(j)
    \/ \E j \in JobIds : RunStart(j)
    \/ \E j \in JobIds : EmitterCall(j, MaxApiProgress)
    \/ \E j \in JobIds, exc \in {"none"} \cup AllExcKinds : ThreadEnds(j, exc)
    \/ LoopEnsureFuture
    \/ LoopStep
    \/ LoopSetState
    \/ LoopWakeup
    \/ \E o \in Observers, j \in JobIds : StreamOpen(o, j)
    \/ \E o \in Observers : StreamSubscribe(o)

SpecReady == Init /\ [][NextReady]_vars

\* =================================================================== claims

\* The edges PENDING -> RUNNING -> {COMPLETED | FAILED}.
StatusEdges == {<<PENDING, RUNNING>>, <<RUNNING, COMPLETED>>, <<RUNNING, FAILED>>}

\* C1: in every step, a job record is created with status PENDING, is never
\* removed, and its status either stays or moves along one of the edges
\* PENDING -> RUNNING, RUNNING -> COMPLETED, RUNNING -> FAILED; so the statuses
\* a job takes are a prefix of PENDING, RUNNING, COMPLETED|FAILED, RUNNING is
\* never skipped, nothing is revisited and a terminal status never changes.
C1_StatusMonotonic ==
    [][\A j \in JobIds :
          /\ j \in DOMAIN jobs => j \in DOMAIN jobs'
          /\ j \in DOMAIN jobs' =>
                IF j \in DOMAIN jobs
                THEN \/ jobs'[j].status = jobs[j].status
                     \/ <<jobs[j].status, jobs'[j].status>> \in StatusEdges
                ELSE jobs'[j].status = PENDING]_vars

\* A job is COMPLETED, another is FAILED, and a stream is open on one of them.
C1_Witness ==
    /\ \E j \in DOMAIN jobs : jobs[j].status = COMPLETED
    /\ \E j \in DOMAIN jobs : jobs[j].status = FAILED
    /\ \E o \in Observers : obs[o].pc = "tail"

\* C2: the ids of a job's events are 1..N in list order, N being the number of
\* append_event calls made for the job (each emit_event call makes one and
\* then publishes once).
C2_EventIdsSequential ==
    \A j \in DOMAIN jobs :
        /\ Len(jobs[j].events) = Len(published[j])
        /\ \A i \in 1..Len(jobs[j].events) : jobs[j].events[i].id = i

\* A job holds events of all three emitters: submit_job's, the orchestrator's
\* two, and one of the worker thread's emitter.
C2_Witness ==
    \E j \in DOMAIN jobs :
        /\ Len(jobs[j].events) = 4
        /\ \E i \in 1..4 : jobs[j].events[i].event = "progress"

TerminalEventIds(j) ==
    {i \in 1..Len(jobs[j].events) : IsTerminalEvent(EventToDict(jobs[j].events[i]))}

\* C3: a job's history never holds more than one terminal status event; it holds
\* none before the orchestrator run has ended and exactly one once it has, and
\* that event was published exactly once.
C3_OneTerminalEvent ==
    \A j \in DOMAIN jobs :
        LET T == TerminalEventIds(j)
        IN  /\ Cardinality(T) <= 1
            /\ run[j].pc = "done" <=> Cardinality(T) = 1
            /\ \A i \in T :
                  Cardinality({k \in 1..Len(published[j]) :
                                  published[j][k] = jobs[j].events[i].id}) = 1

\* One run has ended on the failed path and another on the completed path.
C3_Witness ==
    /\ \E j \in DOMAIN jobs :
          run[j].pc = "done" /\ jobs[j].events[Len(jobs[j].events)].status = "failed"
    /\ \E j \in DOMAIN jobs :
          run[j].pc = "done" /\ jobs[j].events[Len(jobs[j].events)].status = "completed"

\* C4: result is set exactly when the status is COMPLETED and error exactly when
\* it is FAILED; neither is set while the job is PENDING or RUNNING.
C4_ResultErrorMatchStatus ==
    \A j \in DOMAIN jobs :
        /\ jobs[j].result # Null <=> jobs[j].status = COMPLETED
        /\ jobs[j].error # Null <=> jobs[j].status = FAILED

\* One job is COMPLETED with a result while another is FAILED with an error.
C4_Witness ==
    /\ \E j \in DOMAIN jobs : jobs[j].status = COMPLETED /\ jobs[j].result = SnapshotResult
    /\ \E j \in DOMAIN jobs : jobs[j].status = FAILED /\ jobs[j].error # Null

\* The event frames a stream has yielded, keep-alives left out.
EventFrames(o) == SelectSeq(frames[o], LAMBDA f : f # KeepAlive)

\* C5: the ids of the events delivered to one observer are strictly increasing,
\* so none is delivered twice, wherever the replay ends and the tail begins.
C5_DeliveredIdsIncrease ==
    \A o \in Observers :
        \A i, k \in 1..Len(EventFrames(o)) :
            i < k => EventFrames(o)[i].id < EventFrames(o)[k].id

\* The tail loop is about to dequeue an event the replay has already delivered.
C5_Witness ==
    \E o \in Observers :
        /\ obs[o].pc = "tail"
        /\ queues[o] # <<>>
        /\ Head(queues[o]).id <= obs[o].last_event_id
        /\ Len(EventFrames(o)) >= 2

QueuedIds(o) == {queues[o][i].id : i \in 1..Len(queues[o])}

\* C6: a connected observer misses no event.  What it has received are the
\* events 1..k of the job, in order; while it replays, the rest of the history
\* is still ahead of the replay; while it tails, every event of the history it
\* has not received is on its queue; and when the stream ends with the
\* terminal event it has received the whole history.
C6_NoEventMissed ==
    \A o \in Observers :
        obs[o].pc \in {"replay", "tail"} \/ obs[o].exit = "terminal" =>
            LET events == jobs[obs[o].job].events
                got == EventFrames(o)
            IN  /\ Len(got) <= Len(events)
                /\ \A i \in 1..Len(got) : got[i] = EventToDict(events[i])
                /\ obs[o].pc = "replay" => obs[o].idx = Len(got)
                /\ obs[o].pc = "tail" =>
                      \A i \in (Len(got) + 1)..Len(events) : i \in QueuedIds(o)
                /\ obs[o].exit = "terminal" => Len(got) = Len(events)

\* One stream has ended with the terminal event after delivering the whole
\* history of its job, and another is tailing after it replayed a part of the
\* history and took the rest from its queue.
C6_Witness ==
    /\ \E o \in Observers : obs[o].exit = "terminal" /\ Len(EventFrames(o)) = 4
    /\ \E p \in Observers :
          /\ obs[p].pc = "tail"
          /\ obs[p].idx >= 1
          /\ Len(EventFrames(p)) > obs[p].idx

\* C7 (as claimed): a terminal status event is the last frame of a stream:
\* nothing, event or keep-alive, follows it.
C7_TerminalFrameIsLast ==
    \A o \in Observers :
        \A i \in 1..Len(frames[o]) :
            IsTerminalEvent(frames[o][i]) => i = Len(frames[o])

\* C8 (as claimed): no stream is left waiting on a finished job: when the run
\* of its job has ended and no emitter call is outstanding, a stream in the
\* tail loop still has an event on its queue to take.
C8_StreamEndsByItself ==
    \A o \in Observers :
        (/\ obs[o].pc = "tail"
         /\ run[obs[o].job].pc = "done"
         /\ pending[obs[o].job] = 0
         /\ jobs[obs[o].job].status \in {COMPLETED, FAILED})
        => queues[o] # <<>>

\* C9: the queue of an ended stream is registered nowhere, and a job has an
\* entry in the subscriber map only while some stream on it is running.
C9_UnsubscribedWhenEnded ==
    /\ \A o \in Observers :
          obs[o].pc = "done" =>
              \A j \in DOMAIN subscribers : ~ListHas(subscribers[j], o)
    /\ \A j \in DOMAIN subscribers :
          \E o \in Observers : obs[o].job = j /\ obs[o].pc \in {"replay", "tail"}

\* Two streams on the same job have ended, one by the terminal event and one by
\* an exception.
C9_Witness ==
    \E o, p \in Observers :
        /\ obs[o].pc = "done" /\ obs[o].exit = "terminal"
        /\ obs[p].pc = "done" /\ obs[p].exit = "exception"
        /\ obs[o].job = obs[p].job

\* C10: after every store operation the status document of each job is the
\* serialized in-memory record, and a restart reloads exactly the records held
\* before it: same jobs, same status, same events.
C10_ReloadEqualsMemory ==
    /\ [](/\ DOMAIN disk = DOMAIN jobs
          /\ \A j \in DOMAIN jobs : disk[j] = RecordToDict(jobs[j]))
    /\ [][restarts' # restarts => jobs' = jobs]_vars

\* A store has been restarted and holds a RUNNING job with its events.
C10_Witness ==
    /\ restarts = 1
    /\ \E j \in DOMAIN jobs : jobs[j].status = RUNNING /\ Len(jobs[j].events) >= 3

\* C11: every accepted job ends COMPLETED or FAILED with a published terminal
\* status event once its collaborator call has returned or raised: a run that
\* is over, whatever failed inside it, has left its job in a terminal status
\* and its terminal event appended and published.
C11_RunEndsTerminal ==
    \A j \in DOMAIN jobs :
        run[j].pc \in {"done", "crashed"} =>
            /\ jobs[j].status \in {COMPLETED, FAILED}
            /\ TerminalEventIds(j) # {}
            /\ \A i \in TerminalEventIds(j) : ListHas(published[j], i)

\* The step calls EventBroker.publish for job j.
PublishStep(j) == Len(published'[j]) = Len(published[j]) + 1

\* The payload that step publishes: the event it appended to j's history.
PublishedPayload(j) == EventToDict(jobs'[j].events[Len(jobs'[j].events)])

\* C12: an event published for job j is put exactly once on each queue that
\* is subscribed to j at that moment, and on no other queue: every other
\* queue, subscribed to another job or to none, is left as it was.
C12_PublishReachesOwnQueues ==
    [][\A j \in JobIds :
          PublishStep(j) =>
              \A o \in Observers :
                  queues'[o] = IF j \in DOMAIN subscribers /\ ListHas(subscribers[j], o)
                               THEN Append(queues[o], PublishedPayload(j))
                               ELSE queues[o]]_vars

\* Two queues are subscribed to different jobs, and an event published for the
\* second job sits on its own queue only.
C12_Witness ==
    \E o, p \in Observers :
        /\ obs[o].pc \in {"replay", "tail"} /\ obs[o].job = 1
        /\ obs[p].pc \in {"replay", "tail"} /\ obs[p].job = 2
        /\ queues[p] # <<>>
        /\ queues[o] = <<>>

\* C13: the broker retains nothing.  A publish for a job without subscriber
\* changes no queue; the queue a subscribe returns is empty; and a queue only
\* grows by the event of a publish made while it is registered for that job.
C13_BrokerRetainsNothing ==
    [][/\ \A j \in JobIds : PublishStep(j) /\ j \notin DOMAIN subscribers => queues' = queues
       /\ \A o \in Observers : obs[o].pc = "opened" /\ obs'[o].pc = "replay" => queues'[o] = <<>>
       /\ \A o \in Observers :
              Len(queues'[o]) > Len(queues[o]) =>
                  /\ obs[o].job \in DOMAIN subscribers
                  /\ ListHas(subscribers[obs[o].job], o)
                  /\ PublishStep(obs[o].job)
                  /\ queues'[o] = Append(queues[o], PublishedPayload(obs[o].job))]_vars

\* The only open stream has just subscribed, after two events were published
\* to nobody: its queue is empty.
C13_Witness ==
    \E o \in Observers :
        /\ obs[o].pc = "replay" /\ obs[o].idx = 0
        /\ \A p \in Observers \ {o} : obs[p].pc = "idle"
        /\ Len(published[obs[o].job]) >= 2
        /\ ListHas(subscribers[obs[o].job], o)
        /\ queues[o] = <<>>

\* C14: the events of one job reach every subscriber queue in increasing id
\* order, whoever emitted them (the orchestrator or the collaborator's
\* thread): publish calls are made in id order and every queue holds
\* strictly increasing ids.
C14_QueuesInIdOrder ==
    /\ \A j \in JobIds : \A i \in 1..Len(published[j]) : published[j][i] = i
    /\ \A o \in Observers :
           \A i, k \in 1..Len(queues[o]) : i < k => queues[o][i].id < queues[o][k].id

\* A queue holds a progress event of the thread emitter followed by a status
\* event of the orchestrator.
C14_Witness ==
    \E o \in Observers :
        \E i, k \in 1..Len(queues[o]) :
            /\ i < k
            /\ queues[o][i].event = "progress"
            /\ queues[o][k].event = "status"

\* C15: when the collaborator call raises, the run ends normally with the job
\* FAILED, its error the classified message of the exception (kind and
\* description), its result null, and one terminal failed status event,
\* appended last, persisted and published, that carries the same error text.
C15_FailureRecorded ==
    \A j \in DOMAIN jobs :
        run[j].pc = "done" /\ run[j].exc # "none" =>
            LET record == jobs[j]
                last == record.events[Len(record.events)]
            IN  /\ record.status = FAILED
                /\ record.error = ErrorText(run[j].exc)
                /\ record.error # Null
                /\ record.result = Null
                /\ TerminalEventIds(j) = {Len(record.events)}
                /\ EventToDict(last).data = [status |-> StatusValue(FAILED), error |-> record.error]
                /\ published[j][Len(published[j])] = last.id
                /\ disk[j] = RecordToDict(record)

\* A run whose collaborator raised an exception it does not classify is over.
C15_Witness ==
    \E j \in DOMAIN jobs :
        /\ run[j].pc = "done" /\ run[j].exc = "OSError"
        /\ jobs[j].error = "OSError: description"

\* The kind of each event of job j's history: the status value of a status
\* event, "progress" for a progress event.
EventKinds(j) ==
    [i \in 1..Len(jobs[j].events) |->
        IF jobs[j].events[i].event = "status" THEN jobs[j].events[i].status
        ELSE jobs[j].events[i].event]

EventIds(j) == [i \in 1..Len(jobs[j].events) |-> jobs[j].events[i].id]

\* The run of job j is over; its collaborator made n emitter calls and then
\* returned (exc = "none") or raised.
RunOver(j, n, raised) ==
    /\ j \in DOMAIN jobs
    /\ run[j].pc = "done"
    /\ run[j].emitted = n
    /\ (run[j].exc # "none") = raised

\* C16 as stated: a job whose collaborator emits 3 progress events and then
\* returns ends completed with a result and exactly 4 events, the 3 progress
\* events and the terminal completed event, with ids 1,2,3,4.
C16_FourEvents ==
    \A j \in JobIds :
        RunOver(j, 3, FALSE) =>
            /\ jobs[j].status = COMPLETED
            /\ jobs[j].result # Null
            /\ EventKinds(j) = <<"progress", "progress", "progress", "completed">>
            /\ EventIds(j) = <<1, 2, 3, 4>>

\* C16, amended: such a job ends completed with a result and exactly 6 events
\* with ids 1..6: the pending status event of submit_job, the running status
\* event of the orchestrator, the 3 progress events, the terminal completed
\* event.
C16_SixEvents ==
    \A j \in JobIds :
        RunOver(j, 3, FALSE) =>
            /\ jobs[j].status = COMPLETED
            /\ jobs[j].result # Null
            /\ EventKinds(j) = <<"pending", "running", "progress", "progress", "progress", "completed">>
            /\ EventIds(j) = <<1, 2, 3, 4, 5, 6>>

C16_Witness == \E j \in JobIds : RunOver(j, 3, FALSE) /\ jobs[j].status = COMPLETED

\* C17 as stated: a job whose collaborator raises after 1 progress event ends
\* failed with an error, no result, and exactly 2 events.
C17_TwoEvents ==
    \A j \in JobIds :
        RunOver(j, 1, TRUE) =>
            /\ jobs[j].status = FAILED
            /\ jobs[j].error # Null
            /\ jobs[j].result = Null
            /\ EventKinds(j) = <<"progress", "failed">>

\* C17, amended: such a job ends failed with an error, no result, and exactly
\* 4 events: the pending and the running status event, the progress event,
\* the terminal failed event.
C17_FourEvents ==
    \A j \in JobIds :
        RunOver(j, 1, TRUE) =>
            /\ jobs[j].status = FAILED
            /\ jobs[j].error # Null
            /\ jobs[j].result = Null
            /\ EventKinds(j) = <<"pending", "running", "progress", "failed">>
            /\ EventIds(j) = <<1, 2, 3, 4>>

C17_Witness == \E j \in JobIds : RunOver(j, 1, TRUE) /\ jobs[j].status = FAILED

\* A job is stored PENDING without result or error until its run starts.
StoredPending ==
    \A j \in DOMAIN jobs :
        run[j].pc = "scheduled" =>
            jobs[j].status = PENDING /\ jobs[j].result = Null /\ jobs[j].error = Null

\* C19 as stated: a created job is stored PENDING with null result and null
\* error, and the get issued right after the create response returns status
\* pending, however the orchestrator run is scheduled in between.
C19_GetAfterCreateIsPending ==
    /\ StoredPending
    /\ resp.op = "get" /\ resp.first => resp.status = StatusValue(PENDING)

\* C19, amended: a created job is stored PENDING with null result and null
\* error and the create response reports pending; a get returns the status
\* the record has when the get is served: pending while the orchestrator run
\* has not started, running or a terminal status once it has.
C19_GetReturnsCurrentStatus ==
    /\ [](StoredPending /\ (resp.op = "submit" => resp.code = 202 /\ resp.status = StatusValue(PENDING)))
    /\ [][resp' # resp /\ resp'.op = "get" /\ resp'.job \in DOMAIN jobs =>
              /\ resp'.code = 200
              /\ resp'.status = StatusValue(jobs[resp'.job].status)
              /\ run[resp'.job].pc = "scheduled" => resp'.status = StatusValue(PENDING)
              /\ run[resp'.job].pc \notin {"none", "scheduled"} => resp'.status # StatusValue(PENDING)]_vars

\* The get right after the create response was served before the run started.
C19_Witness ==
    /\ resp.op = "get" /\ resp.first /\ resp.code = 200
    /\ resp.status = StatusValue(PENDING)
    /\ run[resp.job].pc = "scheduled"

\* C20: the artifacts endpoint answers 404 exactly for an unknown job id and
\* 409 exactly for a known job that is PENDING, RUNNING or FAILED; it returns
\* content only for a COMPLETED job; and it changes no job state.
C20_ArtifactsStatusCodes ==
    [][resp' # resp /\ resp'.op = "artifacts" =>
          /\ resp'.code = 404 <=> resp'.job \notin DOMAIN jobs
          /\ resp'.code = 409 <=> (resp'.job \in DOMAIN jobs /\ jobs[resp'.job].status \in {PENDING, RUNNING, FAILED})
          /\ resp'.code = 200 => (resp'.job \in DOMAIN jobs /\ jobs[resp'.job].status = COMPLETED)
          /\ UNCHANGED <<jobs, disk, subscribers, queues, published, run, pending>>]_vars

\* The artifacts of a FAILED job were asked for and refused with 409.
C20_Witness ==
    /\ resp.op = "artifacts" /\ resp.code = 409
    /\ resp.job \in DOMAIN jobs
    /\ jobs[resp.job].status = FAILED

\* The payloads published for job j so far, in publish order.
PublishedPayloads(j) == [i \in 1..Len(published[j]) |-> EventToDict(jobs[j].events[published[j][i]])]

\* C18: an observer that subscribed to a job while its history was empty and
\* is idle after events were published has received exactly those events, in
\* publish order; then the idle timeout gives it a keep-alive, and a
\* keep-alive frame comes only to an idle stream, delivers no event, and
\* leaves the high-water mark and the rest of the stream's state as they were.
C18_EventsThenKeepAlive ==
    /\ [](\A o \in Observers :
              obs[o].pc = "tail" /\ queues[o] = <<>> =>
                  EventFrames(o) = PublishedPayloads(obs[o].job))
    /\ [][\A o \in Observers :
              frames'[o] = Append(frames[o], KeepAlive) =>
                  /\ obs[o].pc = "tail" /\ queues[o] = <<>>
                  /\ obs'[o] = obs[o]
                  /\ queues'[o] = queues[o]
                  /\ SelectSeq(frames'[o], LAMBDA f : f # KeepAlive) = EventFrames(o)]_vars

\* The stream replayed nothing (the history was empty when it subscribed),
\* took the 2 published events from its queue in order, and then yielded a
\* keep-alive; its high-water mark is the second event's id.
C18_Witness ==
    \E o \in Observers :
        /\ obs[o].pc = "tail" /\ obs[o].idx = 0
        /\ Len(published[obs[o].job]) = 2
        /\ frames[o] = PublishedPayloads(obs[o].job) \o <<KeepAlive>>
        /\ obs[o].last_event_id = 2

\* C21: for a COMPLETED job the artifacts endpoint answers 500 whenever a
\* file the result refers to (the repo map or a chunk file) is missing, and
\* returns content only when all of them exist.
C21_MissingFileIs500 ==
    [][resp' # resp /\ resp'.op = "artifacts"
          /\ resp'.job \in DOMAIN jobs /\ jobs[resp'.job].status = COMPLETED =>
              /\ files[resp'.job] # ResultFiles => resp'.code = 500
              /\ resp'.code = 200 => files[resp'.job] = ResultFiles]_vars

\* C22: with a secret configured, a request to create job, get job, get
\* artifacts or stream events whose key header is absent or differs from the
\* secret is answered 401 and changes nothing (no job, no event, no
\* subscription, no stream).  In every other case the request is admitted: it
\* is not answered 401.  The health check is answered 200 whatever the key.
C22_KeyRequired ==
    [][request'.seq # request.seq =>
          IF request'.op = "healthz"
          THEN resp'.code = 200
          ELSE IF Truthy(api_key_env) /\ request'.key # api_key_env
          THEN /\ resp' = Response(request'.op, request'.job, 401, "none", FALSE)
               /\ UNCHANGED <<jobs, disk, subscribers, queues, published, run, pending, obs, frames, files>>
          ELSE /\ resp'.op = request'.op
               /\ resp'.code # 401]_vars

\* With the secret configured and one job admitted, a create request with a
\* wrong key has been answered 401.
C22_Witness ==
    /\ api_key_env = "s3cret"
    /\ DOMAIN jobs = {1}
    /\ request.op = "submit" /\ request.key = "wrong"
    /\ resp.code = 401

\* C23: a get of a job changes nothing: no record, no persisted document, no
\* broker, run or stream state.  A second get of the same id right after it
\* therefore returns the identical record; the answer is the record the store
\* holds, and an unknown id is answered "absent" (404), not with an error.
C23_GetJobReadsOnly ==
    [][request'.seq # request.seq /\ request'.op = "get" =>
          LET j == request'.job
          IN  /\ UNCHANGED <<jobs, disk, subscribers, queues, published, run, pending, obs, frames, files>>
              /\ get_job(jobs', j) = get_job(jobs, j)
              /\ resp'.code # 401 =>
                     IF get_job(jobs, j) = <<>>
                     THEN resp' = Response("get", j, 404, "none", FALSE)
                     ELSE resp' = Response("get", j, 200, RecordToDict(jobs[j]).status, FALSE)]_vars

\* A get of a running job has been answered with its record, and a get of
\* an id the store does not hold is possible next.
C23_Witness ==
    /\ request.op = "get" /\ resp.op = "get" /\ resp.code = 200
    /\ resp.status = StatusValue(RUNNING)
    /\ DOMAIN jobs # JobIds

\* C24: update_status, append_event and emit_event called with an id the
\* store does not hold raise the unknown-job error (KeyError) and leave
\* everything as it was: no record, no document, no queue, no publish.
C24_UnknownIdChangesNothing ==
    [][/\ resp' # resp
       /\ resp'.op \in {"update_status", "append_event", "emit_event"}
       /\ resp'.job \notin DOMAIN jobs
       => /\ resp'.status = "KeyError"
          /\ UNCHANGED <<jobs, disk, subscribers, queues, published, run, pending, obs, frames, files>>]_vars

\* With one job known and a stream subscribed to it, emit_event has been
\* called with an id the store does not hold.
C24_Witness ==
    /\ DOMAIN jobs = {1}
    /\ \E o \in Observers : obs[o].pc = "replay"
    /\ resp.op = "emit_event" /\ resp.job = 2 /\ resp.status = "KeyError"

\* What the run r of job j, with p emitter calls still waiting on the loop,
\* has made of the job's record by itself: the pending and the running
\* status event, one progress event per emitter call the loop has run, and
\* the terminal status event once the run is over.
RecordOfRun(j, r, p) ==
    LET n == r.emitted - p
        started == r.pc # "scheduled"
        over == r.pc = "done"
        failed == r.exc # "none"
        error == IF over /\ failed THEN ErrorText(r.exc) ELSE Null
        final == IF failed THEN FAILED ELSE COMPLETED
    IN  [id |-> j,
         status |-> IF over THEN final ELSE IF started THEN RUNNING ELSE PENDING,
         created_at |-> j,
         request |-> Payload,
         events |-> <<JobEvent(1, "status", StatusValue(PENDING), Null)>>
                    \o (IF started THEN <<JobEvent(2, "status", StatusValue(RUNNING), Null)>> ELSE <<>>)
                    \o [i \in 1..n |-> JobEvent(2 + i, "progress", "none", Null)]
                    \o (IF over THEN <<JobEvent(3 + n, "status", StatusValue(final), error)>> ELSE <<>>),
         result |-> IF over /\ ~failed THEN SnapshotResult ELSE Null,
         error |-> error]

\* C25: observers do not influence job execution.  A job's record (status,
\* history, result, error) and its document are what its run alone has made
\* of them, whatever streams exist, lag or have gone; a step of a stream
\* changes no job, document or run; and a stream that ends leaves every
\* other stream, its queue and its subscription as they were.
C25_ObserversDoNotInterfere ==
    /\ [](\A j \in DOMAIN jobs :
              /\ jobs[j] = RecordOfRun(j, run[j], pending[j])
              /\ disk[j] = RecordToDict(jobs[j]))
    /\ [][\A o \in Observers :
              obs'[o] # obs[o] \/ frames'[o] # frames[o] =>
                  /\ UNCHANGED <<jobs, disk, run, pending, published, files>>
                  /\ \A p \in Observers \ {o} :
                         /\ obs'[p] = obs[p] /\ frames'[p] = frames[p] /\ queues'[p] = queues[p]
                         /\ \A j \in DOMAIN subscribers :
                                ListHas(subscribers[j], p) =>
                                    j \in DOMAIN subscribers' /\ ListHas(subscribers'[j], p)]_vars

\* Two streams followed the same job; one has disconnected, the other is
\* still subscribed, and the job has completed.
C25_Witness ==
    \E o, p \in Observers :
        /\ obs[o].exit = "disconnected"
        /\ obs[p].pc = "tail" /\ obs[p].job = obs[o].job
        /\ ListHas(subscribers[obs[p].job], p)
        /\ jobs[obs[o].job].status = COMPLETED

\* The job the last processRepo call created, when it created one.
McpLastJob == mcp.store.jobs[Len(mcp.store.jobs)]

\* C26: every processRepo call that creates a job leaves that job completed
\* or failed when the call returns, never pending or running: when the try
\* block returns the job is completed with error null and the response is
\* its descriptor; when the try block raises the job is failed with the
\* error text set and the response is a JSON-RPC error under the request id.
C26_ProcessRepoEndsTerminal ==
    /\ [](\A i \in DOMAIN mcp.store.jobs : mcp.store.jobs[i].status \in {"completed", "failed"})
    /\ [][Len(mcp'.store.jobs) > Len(mcp.store.jobs) =>
            LET job == McpLastJob'
                response == mcp'.response
            IN  /\ mcp'.request.tool = "processRepo"
                /\ mcp'.request.outcome \in {"ok", "raise"}
                /\ response.id = mcp'.request.id
                /\ mcp'.request.outcome = "ok" =>
                      /\ job.status = "completed" /\ job.error = Null
                      /\ response.error = Absent /\ response.result /= Absent
                      /\ response.result[1].result.jobId = job.id
                      /\ response.result[1].result.status = "completed"
                      /\ response.result[1].result.error = Null
                /\ mcp'.request.outcome = "raise" =>
                      /\ job.status = "failed" /\ job.error /= Null
                      /\ response.result = Absent /\ response.error /= Absent
                      /\ response.error[1].code < 0]_vars

C26_Witness ==
    /\ Len(mcp.store.jobs) = 2
    /\ mcp.store.jobs[1].status = "completed"
    /\ McpLastJob.status = "failed" /\ McpLastJob.error = "snapshot failed"
    /\ mcp.request.tool = "processRepo" /\ mcp.request.outcome = "raise"
    /\ mcp.response.id = "req-2" /\ mcp.response.error /= Absent

IncludedFiles == SelectSeq([i \in 1..Len(chunker.files) |-> i], LAMBDA i : chunker.files[i].included)

\* The contents of the chunks one after the other, their file counts added
\* up, and the tokens counted for the files at the given positions.
RECURSIVE ChunkContents(_)
ChunkContents(chunks) == IF chunks = <<>> THEN <<>> ELSE Head(chunks).content \o ChunkContents(Tail(chunks))
RECURSIVE ChunkFileCounts(_)
ChunkFileCounts(chunks) == IF chunks = <<>> THEN 0 ELSE Head(chunks).file_count + ChunkFileCounts(Tail(chunks))
RECURSIVE BlockTokens(_)
BlockTokens(positions) == IF positions = <<>> THEN 0 ELSE estimator_count(chunker.enabled, chunker.files[Head(positions)].length) + BlockTokens(Tail(positions))

PositiveLimit == chunker.chunk_token_limit /= Absent /\ chunker.chunk_token_limit[1] > 0

\* C28: token-bounded chunking puts every included file in exactly one
\* chunk, in walk order: when the call is over the chunks' contents one
\* after the other are the included files in walk order, the file_count
\* values sum to their number and each token_count is the sum over the
\* chunk's files; with a positive limit a chunk is closed at a file exactly
\* when the current chunk has tokens and the file's block would take it over
\* the limit, so a chunk over the limit holds a single file.
C28_ChunkingPartitionsFiles ==
    /\ [](chunker.done =>
            /\ ChunkContents(chunker.chunks) = IncludedFiles
            /\ ChunkFileCounts(chunker.chunks) = Len(IncludedFiles)
            /\ \A k \in DOMAIN chunker.chunks :
                  /\ chunker.chunks[k].index = k
                  /\ chunker.chunks[k].file_count = Len(chunker.chunks[k].content)
                  /\ chunker.chunks[k].token_count = BlockTokens(chunker.chunks[k].content))
    /\ [](PositiveLimit => \A k \in DOMAIN chunker.chunks :
            chunker.chunks[k].token_count > chunker.chunk_token_limit[1] => chunker.chunks[k].file_count = 1)
    /\ [](~PositiveLimit => Len(chunker.chunks) <= 1)
    /\ [][(chunker'.pos = chunker.pos + 1) =>
            LET f == chunker.files[chunker.pos + 1]
                block_tokens == estimator_count(chunker.enabled, f.length)
                started == Len(chunker'.chunks) = Len(chunker.chunks) + 1
            IN  /\ started \/ chunker'.chunks = chunker.chunks
                /\ started <=> /\ f.included
                                /\ PositiveLimit
                                /\ chunker.chunk_tokens > 0
                                /\ chunker.chunk_tokens + block_tokens > chunker.chunk_token_limit[1]
                /\ started => chunker'.buffer = <<chunker.pos + 1>>]_vars

\* A finished call that split at the third file, after a first file that
\* alone is over the limit and a second file that was filtered out.
C28_Witness ==
    /\ chunker.done /\ chunker.variant = "service" /\ PositiveLimit
    /\ Len(chunker.chunks) = 2
    /\ chunker.chunks[1].token_count > chunker.chunk_token_limit[1]
    /\ chunker.chunks[1].content = <<1>> /\ chunker.chunks[2].content = <<3>>

\* The locks a task holds, and whether it waits: it is at an acquire of a
\* lock that is not free.
Holds(t) == {l \in LockNames : locks.holder[l] = t}
Waits(t) == AtStep(t).do = "acquire" /\ locks.holder[AtStep(t).lock] /= 0

\* C29: no task ever holds the store lock and the broker lock at the same
\* time, and no task waits for one lock while holding the other; therefore
\* in no reachable state of any concurrent emitters, orchestrator runs and
\* observer streams is there a set of tasks each waiting for a lock that a
\* task of the set holds: every lock that is held is held by a task that
\* can take its next step.
C29_NoDeadlock ==
    /\ \A t \in TaskIds : Cardinality(Holds(t)) <= 1
    /\ \A t \in TaskIds : Waits(t) => Holds(t) = {}
    /\ \A l \in LockNames : locks.holder[l] /= 0 => ~Waits(locks.holder[l]) /\ AtStep(locks.holder[l]) = Release(l)
    /\ \A D \in SUBSET TaskIds : D /= {} => \E t \in D : ~(Waits(t) /\ locks.holder[AtStep(t).lock] \in D)

\* An emitter holds the store lock, a stream holds the broker lock and an
\* orchestrator run waits for the store lock.
C29_Witness ==
    \E e, s, r \in TaskIds :
        /\ locks.task[e].op = "emit_event" /\ locks.holder["store"] = e
        /\ locks.task[s].op = "stream_job_events" /\ locks.holder["broker"] = s
        /\ locks.task[r].op = "_run_job" /\ Waits(r) /\ AtStep(r).lock = "store"

\* The positions of job j's terminal status events in its history.
TerminalAt(j) == {i \in 1..Len(jobs[j].events) : IsTerminalEvent(EventToDict(jobs[j].events[i]))}
ProgressAt(j) == {i \in 1..Len(jobs[j].events) : jobs[j].events[i].event = "progress"}

\* C30: the terminal status event is the last event of a job: it is at the
\* end of the history with the largest id, every progress event handed over
\* by the thread-safe emitter has been appended before it with a smaller
\* id, and once it is appended the history never changes.
C30_TerminalEventIsLast ==
    /\ [](\A j \in DOMAIN jobs :
            /\ \A i \in TerminalAt(j) : i = Len(jobs[j].events) /\ run[j].pc = "done"
            /\ \A i \in TerminalAt(j), k \in ProgressAt(j) : jobs[j].events[k].id < jobs[j].events[i].id
            /\ run[j].pc = "done" => TerminalAt(j) /= {} /\ Cardinality(ProgressAt(j)) = run[j].emitted)
    /\ [][\A j \in DOMAIN jobs : TerminalAt(j) /= {} => jobs'[j].events = jobs[j].events]_vars

\* A run whose thread made three emitter calls and raised: it is over, and
\* the callback queue is empty.
C30_Witness ==
    \E j \in DOMAIN jobs :
        /\ run[j].pc = "done" /\ run[j].emitted = MaxApiProgress /\ run[j].exc = "ValueError"
        /\ Cardinality(ProgressAt(j)) = MaxApiProgress
        /\ TerminalAt(j) = {Len(jobs[j].events)}
        /\ ready = <<>>

\* The place of a status in the lifecycle, and whether a record in status r
\* has reached the status value s of an event: it is that status, or one the
\* lifecycle reaches later.
LifecycleRank(status) == CASE status = PENDING -> 0 [] status = RUNNING -> 1 [] OTHER -> 2
RecordReached(r, s) == JobStatus(s) = r \/ LifecycleRank(JobStatus(s)) < LifecycleRank(r)

\* C31: a status event never runs ahead of the job record: a status event
\* carrying S in a job's history or on a queue of one of its observers has a
\* record whose status is S or a later one of the lifecycle; and when an
\* observer is handed the terminal event the record already holds that
\* terminal status with its result (completed) or its error (failed).
C31_StatusEventNotAhead ==
    /\ [](\A j \in DOMAIN jobs : \A i \in 1..Len(jobs[j].events) :
            jobs[j].events[i].event = "status" => RecordReached(jobs[j].status, jobs[j].events[i].status))
    /\ [](\A o \in Observers : \A i \in 1..Len(queues[o]) :
            queues[o][i].event = "status" =>
                /\ obs[o].job \in DOMAIN jobs
                /\ RecordReached(jobs[obs[o].job].status, queues[o][i].data.status))
    /\ [][\A o \in Observers :
            (Len(frames'[o]) = Len(frames[o]) + 1 /\ IsTerminalEvent(frames'[o][Len(frames'[o])])) =>
                LET record == jobs[obs[o].job]
                    event == frames'[o][Len(frames'[o])]
                IN  /\ record.status = JobStatus(event.data.status)
                    /\ record.status = COMPLETED => record.result /= Null /\ record.error = Null
                    /\ record.status = FAILED => record.error /= Null /\ record.error = event.data.error
                    /\ jobs'[obs[o].job] = record]_vars

\* An observer that was tailing a failed job has the terminal event as its
\* last frame, and another observer still has it on its queue.
C31_Witness ==
    \E o, p \in Observers, j \in DOMAIN jobs :
        /\ o /= p /\ jobs[j].status = FAILED
        /\ frames[o] /= <<>> /\ IsTerminalEvent(frames[o][Len(frames[o])])
        /\ obs[p].job = j /\ queues[p] /= <<>> /\ IsTerminalEvent(queues[p][Len(queues[p])])

\* The jobs on whose list a queue is.
RegisteredFor(q) == {j \in DOMAIN subscribers : ListHas(subscribers[j], q)}

\* C32: in every reachable broker state every job id in the subscriber map
\* maps to a non-empty list on which no queue is twice (and no queue is on
\* two lists); unsubscribing the last queue of a job removes the job's
\* entry; unsubscribing a queue that is not registered for the job changes
\* nothing; and an unsubscribe leaves the other queues of the job in their
\* order and the other jobs' lists as they are.
C32_BrokerMapInvariants ==
    /\ [](\A j \in DOMAIN subscribers :
            /\ subscribers[j] /= <<>>
            /\ \A a, b \in 1..Len(subscribers[j]) : subscribers[j][a] = subscribers[j][b] => a = b)
    /\ [](\A q \in Observers : Cardinality(RegisteredFor(q)) <= 1)
    /\ [](\A j \in JobIds, q \in Observers :
            LET after == unsubscribe(subscribers, j, q)
            IN  /\ j \notin RegisteredFor(q) => after = subscribers
                /\ (j \in DOMAIN subscribers /\ subscribers[j] = <<q>>) => j \notin DOMAIN after
                /\ \A k \in DOMAIN subscribers \ {j} : k \in DOMAIN after /\ after[k] = subscribers[k]
                /\ j \in DOMAIN after => after[j] = SelectSeq(subscribers[j], LAMBDA x : x /= q))
    /\ [][\A j \in DOMAIN subscribers : j \notin DOMAIN subscribers' => Len(subscribers[j]) = 1]_vars

\* Both queues are registered, one per job, and an event was published to
\* the queue of the second job: unsubscribing either queue from the job of
\* the other is an unsubscribe of a queue that is not registered.
C32_Witness ==
    /\ DOMAIN subscribers = JobIds
    /\ subscribers[1] = <<2>> /\ subscribers[2] = <<1>>
    /\ queues[1] /= <<>>

\* s is what t began with.
IsPrefix(s, t) == Len(s) <= Len(t) /\ SubSeq(t, 1, Len(s)) = s

\* C33: for every job the events list only grows at the end: across every
\* step, of any store operation with any arguments, the job is still in the
\* store, its history before the step is a prefix of its history after it
\* (no event is modified, removed or reordered), and its created_at and its
\* request are what they were.
C33_HistoryOnlyGrows ==
    [][\A j \in DOMAIN jobs :
          /\ j \in DOMAIN jobs'
          /\ IsPrefix(jobs[j].events, jobs'[j].events)
          /\ Len(jobs'[j].events) <= Len(jobs[j].events) + 1
          /\ jobs'[j].created_at = jobs[j].created_at
          /\ jobs'[j].request = jobs[j].request
          /\ jobs'[j].id = jobs[j].id]_vars

\* update_status has just taken a job that has two events back to PENDING.
C33_Witness ==
    \E j \in DOMAIN jobs :
        /\ Len(jobs[j].events) >= 2
        /\ resp.op = "update_status" /\ resp.job = j /\ resp.status = "none"
        /\ jobs[j].status = PENDING
        /\ jobs[j].request = Payload /\ jobs[j].created_at = j

\* The directories whose status document parses into a job record: json.loads
\* and JobRecord.from_dict return.
Parses(k) == k \in DOMAIN disk /\ Loadable(disk[k])

\* C34: at startup the store loads exactly the jobs whose directory holds a
\* status document that parses into a job record: the start does not raise,
\* whatever the other directories hold, and the loaded records are those of
\* the documents that parse.
C34_LoadsExactlyParsable ==
    [][restarts' = restarts + 1 =>
          /\ resp'.status = "none"
          /\ \A k \in DOMAIN disk : Parses(k) <=> (disk[k].id \in DOMAIN jobs' /\ jobs'[disk[k].id] = RecordFromDict(disk[k]))
          /\ \A j \in DOMAIN jobs' : \E k \in DOMAIN disk : Parses(k) /\ disk[k].id = j]_vars

\* C34 where no document has an id that cannot key a dict: the start does
\* not raise, torn documents and documents with a status that is no JobStatus
\* value are skipped, and every other document is loaded.
C34_LoadsExactlyParsableHashable ==
    [][(restarts' = restarts + 1 /\ ~load_raises(disk)) =>
          /\ resp'.status = "none"
          /\ DOMAIN jobs' = {disk[k].id : k \in {d \in DOMAIN disk : Parses(d)}}
          /\ \A k \in DOMAIN disk : Parses(k) => jobs'[disk[k].id] = RecordFromDict(disk[k])]_vars

\* The process has started on a root with a torn document and a good one:
\* the good one is loaded.
C34_Witness ==
    /\ restarts = 1 /\ resp.status = "none"
    /\ DOMAIN disk = JobIds /\ disk[1] = TornDocument(1)
    /\ DOMAIN jobs = {2} /\ jobs[2].status = RUNNING

\* C35: an orchestrator run started for a job id the store does not hold
\* returns silently and without effect: the step that runs it ends the run
\* and creates no record, changes no status, appends and publishes no event
\* and hands nothing to the worker thread; no run is ever in the worker
\* thread for an id the store does not hold.
C35_UnknownIdRunIsSilent ==
    /\ [](\A j \in JobIds : run[j].pc \in {"thread", "returned", "raised"} => j \in DOMAIN jobs)
    /\ [][\A j \in JobIds : (run[j].pc = "scheduled" /\ j \notin DOMAIN jobs /\ run'[j] /= run[j]) =>
              /\ run'[j].pc = "done"
              /\ UNCHANGED <<jobs, disk, queues, published, subscribers, pending, files>>]_vars

\* A run for id 2 has ended while the store holds job 1 only and an observer
\* is registered for id 2 at the broker.
C35_Witness ==
    /\ run[2].pc = "done"
    /\ DOMAIN jobs = {1} /\ DOMAIN disk = {1}
    /\ 2 \in DOMAIN subscribers /\ subscribers[2] /= <<>>
    /\ published[2] = <<>>

\* C36: whenever a job is in a terminal state, its workspace does not exist:
\* the workspace made during the worker thread's call is removed on return
\* and on every exception path, before the terminal status is recorded.
C36_TerminalJobHasNoWorkspace ==
    \A j \in DOMAIN jobs : jobs[j].status \in {COMPLETED, FAILED} => WorkspaceDir \notin files[j]

\* C36 for the workspaces rmtree can remove: a terminal job's workspace is
\* gone unless a directory without write permission was unpacked into it, and
\* no workspace exists before the run has prepared it.
C36_RemovableWorkspaceIsRemoved ==
    \A j \in DOMAIN jobs :
        /\ (jobs[j].status \in {COMPLETED, FAILED} /\ ReadOnlyDir \notin files[j]) => WorkspaceDir \notin files[j]
        /\ jobs[j].status = PENDING => WorkspaceDir \notin files[j]

\* A job has completed and one has failed after their workspaces were made,
\* and both workspaces are gone.
C36_Witness ==
    /\ DOMAIN jobs = {1, 2}
    /\ jobs[1].status = COMPLETED /\ run[1].emitted = 2 /\ files[1] = ResultFiles
    /\ jobs[2].status = FAILED /\ run[2].emitted = 2 /\ files[2] = {}

\* C37: update_status performs no transition check: for a job the store
\* holds it succeeds whatever the current and the requested status are, sets
\* the requested status, and overwrites error and result with the values
\* passed, null for whichever is not passed; the document written is that of
\* the record, and events and the other jobs are left alone.
C37_UpdateStatusUnchecked ==
    [][\A j \in JobIds, s \in JobStatusMembers, e \in {Null, ErrorText("ValueError")}, r \in {Null, SnapshotResult} :
          (j \in DOMAIN jobs /\ UpdateStatusCall(j, s, e, r)) =>
              /\ resp'.status = "none"
              /\ jobs'[j].status = s /\ jobs'[j].error = e /\ jobs'[j].result = r
              /\ jobs'[j].events = jobs[j].events
              /\ disk'[j] = RecordToDict(jobs'[j])
              /\ \A k \in DOMAIN jobs \ {j} : jobs'[k] = jobs[k] /\ disk'[k] = disk[k]]_vars

\* Job 1 is back in PENDING with an error and no result, job 2 is RUNNING
\* with a result and no error, and the last call was an update_status that
\* returned.
C37_Witness ==
    /\ DOMAIN jobs = {1, 2}
    /\ jobs[1].status = PENDING /\ jobs[1].error = ErrorText("ValueError") /\ jobs[1].result = Null
    /\ jobs[2].status = RUNNING /\ jobs[2].error = Null /\ jobs[2].result = SnapshotResult
    /\ resp.op = "update_status" /\ resp.status = "none"

\* C38: reloading at startup only reads.  The start leaves every document as
\* it is, gives each loaded record the status, events, result and error of
\* its document, and schedules no run and publishes nothing; a job without a
\* run, as every reloaded job is, keeps its status, result and error and its
\* events as a prefix from then on; and an event appended to a reloaded job
\* gets the id that is the length of the reloaded history plus one.
C38_ReloadOnlyReads ==
    /\ [][restarts' = restarts + 1 =>
              /\ disk' = disk /\ files' = files
              /\ \A j \in JobIds : run'[j].pc = "none" /\ pending'[j] = 0 /\ published'[j] = <<>>
              /\ \A j \in DOMAIN jobs' : \E k \in DOMAIN disk :
                    /\ disk[k].id = j
                    /\ StatusValue(jobs'[j].status) = disk[k].status
                    /\ jobs'[j].result = disk[k].result /\ jobs'[j].error = disk[k].error
                    /\ Len(jobs'[j].events) = Len(disk[k].events)
                    /\ \A i \in 1..Len(disk[k].events) : EventToDict(jobs'[j].events[i]) = disk[k].events[i]]_vars
    /\ [][restarts' = restarts =>
              \A j \in DOMAIN jobs : run[j].pc = "none" =>
                  /\ run'[j].pc = "none"
                  /\ jobs'[j].status = jobs[j].status
                  /\ jobs'[j].result = jobs[j].result /\ jobs'[j].error = jobs[j].error
                  /\ IsPrefix(jobs[j].events, jobs'[j].events)
                  /\ Len(jobs'[j].events) > Len(jobs[j].events) =>
                        /\ Len(jobs'[j].events) = Len(jobs[j].events) + 1
                        /\ jobs'[j].events[Len(jobs'[j].events)].id = Len(jobs[j].events) + 1]_vars

\* Job 1 was reloaded RUNNING with two events and has had a third appended,
\* with id 3, and is RUNNING still without a run; job 2 was submitted after
\* the start and has completed.
C38_Witness ==
    /\ restarts = 1
    /\ DOMAIN jobs = {1, 2}
    /\ jobs[1].status = RUNNING /\ run[1].pc = "none"
    /\ Len(jobs[1].events) = 3 /\ jobs[1].events[3].id = 3
    /\ jobs[2].status = COMPLETED /\ run[2].pc = "done"

\* C39: store mutations are atomic with respect to a failing write: when
\* writing the status document fails inside create_job, update_status or
\* append_event, the in-memory state is what it was before the call: no job
\* added to the map, no status changed, no event appended.
C39_FailedWriteLeavesMemory ==
    [][\A j \in JobIds, s \in JobStatusMembers, torn \in BOOLEAN :
          (CreateJobRaises(j, torn) \/ UpdateStatusRaises(j, s, torn) \/ AppendEventRaises(j, MaxStreamEvents, torn)) => jobs' = jobs]_vars

\* What does hold when a write fails: the call is not undone in memory, so
\* the map has the new job, the status or the event although the document
\* was not written, and the records of the other jobs are as they were.
C39_FailedWriteKeepsMutation ==
    [][\A j \in JobIds, s \in JobStatusMembers, torn \in BOOLEAN :
          /\ CreateJobRaises(j, torn) => (j \notin DOMAIN jobs /\ j \in DOMAIN jobs' /\ jobs'[j].status = PENDING)
          /\ UpdateStatusRaises(j, s, torn) => (jobs'[j].status = s /\ \A k \in DOMAIN jobs \ {j} : jobs'[k] = jobs[k])
          /\ AppendEventRaises(j, MaxStreamEvents, torn) => (Len(jobs'[j].events) = Len(jobs[j].events) + 1 /\ \A k \in DOMAIN jobs \ {j} : jobs'[k] = jobs[k])]_vars

\* A failed create_job has left job 2 in the map without a document, and a
\* failed update_status has left job 1 RUNNING in memory and pending on disk.
C39_Witness ==
    /\ DOMAIN jobs = {1, 2} /\ DOMAIN disk = {1}
    /\ jobs[1].status = RUNNING /\ disk[1].status = StatusValue(PENDING)
    /\ resp.status = "OSError"

====
